---------------------------- MODULE Spec2Model ----------------------------
(***************************************************************************)
(* A model of the analysis-and-recommendation pipeline of rust-llm-layer:  *)
(* the execution-time history and anomaly detector, the priority scoring  *)
(* weights, the statistics trackers (columns, joins, fingerprints, time   *)
(* buckets), the pattern analyzer, the index recommender, the performance *)
(* predictor, the query parser, the cost calculator and the index removal *)
(* recommender.                                                            *)
(*                                                                         *)
(* Strings are sequences of one-character strings, so that trimming,      *)
(* searching, splitting, upper-casing and comparison are computed.  An    *)
(* f64 is an exact fraction <<n, d>> with d >= 0; d = 0 encodes the IEEE   *)
(* results of a division by zero: <<1,0>> is +inf, <<-1,0>> is -inf and    *)
(* <<0,0>> is NaN.  Rounding of f64 arithmetic is not modelled.           *)
(***************************************************************************)
EXTENDS Integers, Sequences, FiniteSets, TLC

VARIABLES
    execution_times,   \* AnomalyDetector.execution_times (VecDeque<u64>)
    anomaly_result,    \* value returned by the last detect_anomaly call
    workload,          \* which stream of execution times the caller records
    recorded,          \* number of add_execution_time calls made so far
    weights,           \* PriorityScoringAlgorithm's four *_weight fields
    priority_score,    \* value returned by the last calculate_priority_score
    column_stats,      \* ColumnTracker.column_stats (HashMap)
    join_stats,        \* JoinAnalyzer.join_stats (HashMap)
    fingerprints,      \* QueryFingerprinter.fingerprints (HashMap)
    hourly_stats,      \* TimeAnalyzer.hourly_stats: hour -> (count, total_time)
    daily_stats,       \* TimeAnalyzer.daily_stats: day -> (count, total_time)
    logs,              \* PatternAnalyzer.logs (Vec<QueryLog>)
    folded,            \* what was folded so far, as a count and a sum: per column,
                       \* per (table1, table2) pair as given, per fingerprint
                       \* and per timestamp; the number of track_usage
                       \* calls with the argument of the last one; and
                       \* the query texts given to add_query, per
                       \* fingerprint in the order of the calls
    patterns,          \* value returned by analyze since the logs last changed
    recommender,       \* IndexRecommender's two thresholds
    rec_input,         \* patterns argument of the recommend call that
    recommendations,   \* returned this value, since the last analysis
    historical_data,   \* PerformancePredictor.historical_data (Vec<QueryLog>)
    cache_enabled,     \* PerformancePredictor.cache_enabled
    prediction,        \* value returned by the last predict call
    parsed,            \* outcome of the last QueryParser::parse call, with its text
    cost,              \* value returned by the last CostCalculator call
    removal,           \* outcome of the last evaluate_index_for_removal call
    ops                \* record operations the callers may still make

vars ==
    <<execution_times, anomaly_result, workload, recorded, weights, priority_score,
      column_stats, join_stats, fingerprints, hourly_stats,
      daily_stats, folded,
      logs, patterns, recommender, rec_input, recommendations,
      historical_data, cache_enabled, prediction, parsed, cost, removal, ops>>

\* what an operation of one component leaves alone
notAnomaly ==
    <<weights, priority_score, column_stats, join_stats, fingerprints, hourly_stats,
      daily_stats, folded,
      logs, patterns, recommender, rec_input, recommendations,
      historical_data, cache_enabled, prediction, parsed, cost, removal, ops>>

notScoring ==
    <<execution_times, anomaly_result, workload, recorded,
      column_stats, join_stats, fingerprints, hourly_stats,
      daily_stats, folded,
      logs, patterns, recommender, rec_input, recommendations,
      historical_data, cache_enabled, prediction, parsed, cost, removal, ops>>

notTrackers ==
    <<execution_times, anomaly_result, workload, recorded, weights, priority_score,
      logs, patterns, recommender, rec_input, recommendations,
      historical_data, cache_enabled, prediction, parsed, cost, removal>>

notPattern ==
    <<execution_times, anomaly_result, workload, recorded, weights, priority_score,
      column_stats, join_stats, fingerprints, hourly_stats,
      daily_stats, folded,
      historical_data, cache_enabled, prediction, parsed, cost, removal>>

notPredictor ==
    <<execution_times, anomaly_result, workload, recorded, weights, priority_score,
      column_stats, join_stats, fingerprints, hourly_stats,
      daily_stats, folded,
      logs, patterns, recommender, rec_input, recommendations,
      parsed, cost, removal>>

\* what QueryParser, CostCalculator and IndexRemovalRecommender, which keep
\* nothing between calls, leave alone
notCalls ==
    <<execution_times, anomaly_result, workload, recorded, weights, priority_score,
      column_stats, join_stats, fingerprints, hourly_stats,
      daily_stats, folded,
      logs, patterns, recommender, rec_input, recommendations,
      historical_data, cache_enabled, prediction, ops>>

---------------------------------------------------------------------------
(* Bounds of the model *)

\* add_execution_time calls made under a scripted workload
MaxAdds == 102
\* longest history built from freely chosen execution times
MaxFreeLen == 11
\* record operations made on the statistics trackers
MaxOps == 3
\* record operations made on the pattern analyzer
MaxLogOps == 3
\* record operations made on the performance predictor
MaxHistoryOps == 3
\* clauses in a query text given to the parser
MaxClauses == 3
\* indexes in the usage statistics given to the removal recommender
MaxIndexes == 2
\* add_query calls made on a fingerprinter used alone
MaxQueries == 7

---------------------------------------------------------------------------
(* f64 arithmetic on fractions *)

RECURSIVE Gcd(_, _)
Gcd(a, b) ==
    IF b = 0 THEN a ELSE Gcd(b, a % b)

IAbs(x) ==
    IF x < 0 THEN -x ELSE x

\* lowest terms; a zero denominator keeps only the sign of the numerator
FNorm(n, d) ==
    IF d = 0
    THEN <<(IF n > 0 THEN 1 ELSE IF n < 0 THEN -1 ELSE 0), 0>>
    ELSE LET s == IF d < 0 THEN -1 ELSE 1
             g == Gcd(IAbs(n), IAbs(d))
         IN  <<(s * n) \div g, (s * d) \div g>>

FInt(i) ==
    <<i, 1>>

FIsNaN(a) ==
    a[1] = 0 /\ a[2] = 0

FAdd(a, b) ==
    IF a[2] = 0 /\ b[2] = 0
    THEN (IF a[1] = b[1] THEN a ELSE <<0, 0>>)
    ELSE FNorm(a[1] * b[2] + b[1] * a[2], a[2] * b[2])

FSub(a, b) ==
    FAdd(a, <<-b[1], b[2]>>)

FMul(a, b) ==
    FNorm(a[1] * b[1], a[2] * b[2])

\* x / 0.0 is +inf or -inf by the sign of x, and 0.0 / 0.0 is NaN
FDiv(a, b) ==
    IF b[1] < 0
    THEN FNorm(-(a[1] * b[2]), -(a[2] * b[1]))
    ELSE FNorm(a[1] * b[2], a[2] * b[1])

\* every comparison with NaN is false
FLt(a, b) ==
    /\ ~FIsNaN(a)
    /\ ~FIsNaN(b)
    /\ IF a[2] = 0 /\ b[2] = 0
       THEN a[1] < b[1]
       ELSE a[1] * b[2] < b[1] * a[2]

\* f64::min returns the other operand when one is NaN
FMin(a, b) ==
    IF FIsNaN(a) THEN b
    ELSE IF FIsNaN(b) THEN a
    ELSE IF FLt(b, a) THEN b ELSE a

FAbs(a) ==
    <<IAbs(a[1]), a[2]>>

---------------------------------------------------------------------------
(* Strings: sequences of one-character strings, offsets counted from 0 *)

\* the characters in use, in the order of their code points: three
\* punctuation marks, the digits at 4..13, "=", the upper-case letters at
\* 15..40, "_", and the lower-case letters at 42..67
AsciiOrder ==
    <<" ", "*", ",", ".">> \o <<"0", "1", "2", "3", "4", "5", "6", "7", "8", "9">> \o <<"=">>
    \o <<"A", "B", "C", "D", "E", "F", "G", "H", "I", "J", "K", "L", "M">>
    \o <<"N", "O", "P", "Q", "R", "S", "T", "U", "V", "W", "X", "Y", "Z">> \o <<"_">>
    \o <<"a", "b", "c", "d", "e", "f", "g", "h", "i", "j", "k", "l", "m">>
    \o <<"n", "o", "p", "q", "r", "s", "t", "u", "v", "w", "x", "y", "z">>

\* the place of a character in that order
Ord ==
    [c \in {AsciiOrder[i] : i \in 1..Len(AsciiOrder)} |->
        CHOOSE i \in 1..Len(AsciiOrder) : AsciiOrder[i] = c]

to_uppercase(s) ==
    [i \in 1..Len(s) |->
        IF Ord[s[i]] >= 43 THEN AsciiOrder[Ord[s[i]] - 27] ELSE s[i]]

\* s[from..to] of the source
Slice(s, from, to) ==
    SubSeq(s, from + 1, to)

\* str::find: offset of the first occurrence of pat, -1 for None
Find(s, pat) ==
    LET hits == {i \in 0..(Len(s) - Len(pat)) : Slice(s, i, i + Len(pat)) = pat}
    IN  IF hits = {} THEN -1
        ELSE CHOOSE i \in hits : \A j \in hits : i <= j

contains(s, pat) ==
    Find(s, pat) # -1

starts_with(s, pat) ==
    Len(s) >= Len(pat) /\ Slice(s, 0, Len(pat)) = pat

RECURSIVE trim_start(_)
trim_start(s) ==
    IF s # <<>> /\ Head(s) = " " THEN trim_start(Tail(s)) ELSE s

RECURSIVE trim(_)
trim(s) ==
    IF s # <<>> /\ s[Len(s)] = " "
    THEN trim(SubSeq(s, 1, Len(s) - 1))
    ELSE trim_start(s)

\* str::split(pat), as the pieces it yields
RECURSIVE split(_, _)
split(s, pat) ==
    LET i == Find(s, pat)
    IN  IF i = -1 THEN <<s>>
        ELSE <<Slice(s, 0, i)>> \o split(Slice(s, i + Len(pat), Len(s)), pat)

RECURSIVE split_whitespace(_)
split_whitespace(s) ==
    LET t == trim_start(s)
        i == Find(t, <<" ">>)
    IN  IF t = <<>> THEN <<>>
        ELSE IF i = -1 THEN <<t>>
        ELSE <<Slice(t, 0, i)>> \o split_whitespace(Slice(t, i, Len(t)))

\* str::matches(pat).count(): occurrences that do not overlap
RECURSIVE matches_count(_, _)
matches_count(s, pat) ==
    LET i == Find(s, pat)
    IN  IF i = -1 THEN 0
        ELSE 1 + matches_count(Slice(s, i + Len(pat), Len(s)), pat)

\* a < b on strings: byte-wise lexicographic order
RECURSIVE StrLt(_, _)
StrLt(a, b) ==
    IF b = <<>> THEN FALSE
    ELSE IF a = <<>> THEN TRUE
    ELSE IF Head(a) # Head(b) THEN Ord[Head(a)] < Ord[Head(b)]
    ELSE StrLt(Tail(a), Tail(b))

\* format!("{}", n) of an unsigned integer
RECURSIVE NatToStr(_)
NatToStr(n) ==
    IF n < 10 THEN <<AsciiOrder[5 + n]>>
    ELSE NatToStr(n \div 10) \o <<AsciiOrder[5 + (n % 10)]>>

---------------------------------------------------------------------------
(* AnomalyDetector *)

max_history == 100

baseline_threshold == 2

NoResult ==
    [is_anomaly |-> FALSE, anomaly_type |-> "none", severity |-> FInt(0),
     baseline_value |-> FInt(0), current_value |-> FInt(0)]

\* a history that is never trimmed
add_execution_time_no_evict(times, execution_time) ==
    Append(times, execution_time)

\* a full history that turns the new value away instead of the oldest
add_execution_time_drop_newest(times, execution_time) ==
    LET pushed == Append(times, execution_time)
    IN  IF Len(pushed) > max_history
        THEN SubSeq(pushed, 1, Len(pushed) - 1)
        ELSE pushed

add_execution_time(times, execution_time) ==
    LET pushed == Append(times, execution_time)
    IN  IF Len(pushed) > max_history THEN Tail(pushed) ELSE pushed

RECURSIVE InsertSorted(_, _)
InsertSorted(sorted, x) ==
    IF sorted = <<>> THEN <<x>>
    ELSE IF x < Head(sorted) THEN <<x>> \o sorted
    ELSE <<Head(sorted)>> \o InsertSorted(Tail(sorted), x)

RECURSIVE SortTimes(_)
SortTimes(times) ==
    IF times = <<>> THEN <<>>
    ELSE InsertSorted(SortTimes(Tail(times)), Head(times))

\* median of the window; times[i] of the source is sorted[i + 1] here
calculate_baseline(times) ==
    LET sorted == SortTimes(times)
        len == Len(sorted)
    IN  IF len % 2 = 0
        THEN FDiv(FInt(sorted[len \div 2] + sorted[len \div 2 + 1]), FInt(2))
        ELSE FInt(sorted[len \div 2 + 1])

\* Iterator::sum of integers
RECURSIVE Sum(_)
Sum(xs) ==
    IF xs = <<>> THEN 0 ELSE Head(xs) + Sum(Tail(xs))

\* iter().rev().skip(skip).take(take), as the samples it yields
RevSkipTake(times, skip, take) ==
    LET len == Len(times)
        hi == len - skip
        lo == IF hi - take + 1 < 1 THEN 1 ELSE hi - take + 1
    IN  IF hi < 1 THEN <<>> ELSE SubSeq(times, lo, hi)

detect_unusual_pattern(times, current_time) ==
    LET recent_avg == FDiv(FInt(Sum(RevSkipTake(times, 0, 5))), FInt(5))
        older_avg == FDiv(FInt(Sum(RevSkipTake(times, 5, 10))), FInt(10))
    IN  IF FLt(FInt(0), older_avg)
        THEN LET trend_change == FDiv(FSub(recent_avg, older_avg), older_avg)
             IN  FLt(<<1, 2>>, FAbs(trend_change))
        ELSE FALSE

\* a severity that is not capped at 1.0
SuddenSlowSeverity_uncapped(deviation) ==
    FDiv(deviation, FInt(baseline_threshold))

\* a severity that saturates at twice the threshold
SuddenSlowSeverity_saturating_late(deviation) ==
    FMin(FDiv(deviation, FInt(2 * baseline_threshold)), FInt(1))

SuddenSlowSeverity(deviation) ==
    FMin(FDiv(deviation, FInt(baseline_threshold)), FInt(1))

detect_anomaly(times, current_time) ==
    IF Len(times) < 10
    THEN [is_anomaly |-> FALSE, anomaly_type |-> "insufficient_data",
          severity |-> FInt(0), baseline_value |-> FInt(0),
          current_value |-> FInt(current_time)]
    ELSE LET baseline == calculate_baseline(times)
             deviation == FDiv(FSub(FInt(current_time), baseline), baseline)
         IN  IF FLt(FInt(baseline_threshold), deviation)
             THEN [is_anomaly |-> TRUE, anomaly_type |-> "sudden_slow",
                   severity |-> SuddenSlowSeverity(deviation),
                   baseline_value |-> baseline,
                   current_value |-> FInt(current_time)]
             ELSE IF detect_unusual_pattern(times, current_time)
             THEN [is_anomaly |-> TRUE, anomaly_type |-> "unusual_pattern",
                   severity |-> <<7, 10>>, baseline_value |-> baseline,
                   current_value |-> FInt(current_time)]
             ELSE [is_anomaly |-> FALSE, anomaly_type |-> "normal",
                   severity |-> FInt(0), baseline_value |-> baseline,
                   current_value |-> FInt(current_time)]

\* the streams of execution times a caller records
Workloads == {"free", "steady", "idle", "sawtooth", "spiky"}

\* execution times a caller may record when it chooses freely
FreeTimes == {0, 100}

\* the n-th execution time (n = 0, 1, ...) of a scripted workload
WorkloadTime(w, n) ==
    CASE w = "steady" -> 100
      [] w = "idle" -> 0
      [] w = "sawtooth" -> (n % 7) * 50
      [] OTHER -> IF n % 9 = 0 THEN 1000 ELSE 20

AddExecutionTime ==
    /\ \E t \in (IF workload = "free" THEN FreeTimes
                 ELSE {WorkloadTime(workload, recorded)}) :
          execution_times' = add_execution_time(execution_times, t)
    /\ IF workload = "free"
       THEN Len(execution_times) < MaxFreeLen
       ELSE recorded < MaxAdds
    /\ recorded' = recorded + 1
    /\ anomaly_result' = NoResult
    /\ UNCHANGED <<workload, notAnomaly>>

DetectAnomaly ==
    /\ \E current_time \in {0, 100, 400} :
          anomaly_result' = detect_anomaly(execution_times, current_time)
    /\ UNCHANGED <<execution_times, workload, recorded, notAnomaly>>

---------------------------------------------------------------------------
(* PriorityScoringAlgorithm *)

DefaultWeights ==
    [frequency |-> <<3, 10>>, performance |-> <<2, 5>>,
     cost |-> <<1, 5>>, complexity |-> <<1, 10>>]

NoScore ==
    [index_name |-> "", total_score |-> FInt(0), frequency_score |-> FInt(0),
     performance_score |-> FInt(0), cost_score |-> FInt(0),
     complexity_score |-> FInt(0), priority_level |-> "none"]

score_frequency(frequency) ==
    IF frequency > 1000 THEN FInt(1)
    ELSE IF frequency > 500 THEN <<4, 5>>
    ELSE IF frequency > 100 THEN <<3, 5>>
    ELSE IF frequency > 10 THEN <<2, 5>>
    ELSE <<1, 5>>

score_performance(performance_impact) ==
    IF FLt(FInt(50), performance_impact) THEN FInt(1)
    ELSE IF FLt(FInt(25), performance_impact) THEN <<4, 5>>
    ELSE IF FLt(FInt(10), performance_impact) THEN <<3, 5>>
    ELSE IF FLt(FInt(5), performance_impact) THEN <<2, 5>>
    ELSE <<1, 5>>

score_cost(maintenance_cost) ==
    IF FLt(maintenance_cost, FInt(2)) THEN FInt(1)
    ELSE IF FLt(maintenance_cost, FInt(5)) THEN <<4, 5>>
    ELSE IF FLt(maintenance_cost, FInt(10)) THEN <<3, 5>>
    ELSE IF FLt(maintenance_cost, FInt(20)) THEN <<2, 5>>
    ELSE <<1, 5>>

score_complexity(complexity) ==
    IF FLt(complexity, <<1, 5>>) THEN FInt(1)
    ELSE IF FLt(complexity, <<2, 5>>) THEN <<4, 5>>
    ELSE IF FLt(complexity, <<3, 5>>) THEN <<3, 5>>
    ELSE IF FLt(complexity, <<4, 5>>) THEN <<2, 5>>
    ELSE <<1, 5>>

\* a >= b on f64
FGe(a, b) ==
    FLt(b, a) \/ (~FIsNaN(a) /\ a = b)

\* cutoffs that a score must exceed, not merely reach
determine_priority_level_strict(total_score) ==
    IF FLt(<<4, 5>>, total_score) THEN "Critical"
    ELSE IF FLt(<<3, 5>>, total_score) THEN "High"
    ELSE IF FLt(<<2, 5>>, total_score) THEN "Medium"
    ELSE IF FLt(<<1, 5>>, total_score) THEN "Low"
    ELSE "Very Low"

determine_priority_level(total_score) ==
    IF FGe(total_score, <<4, 5>>) THEN "Critical"
    ELSE IF FGe(total_score, <<3, 5>>) THEN "High"
    ELSE IF FGe(total_score, <<2, 5>>) THEN "Medium"
    ELSE IF FGe(total_score, <<1, 5>>) THEN "Low"
    ELSE "Very Low"

calculate_priority_score(w, index_name, frequency, performance_impact, maintenance_cost, complexity) ==
    LET frequency_score == score_frequency(frequency)
        performance_score == score_performance(performance_impact)
        cost_score == score_cost(maintenance_cost)
        complexity_score == score_complexity(complexity)
        total_score ==
            FAdd(FAdd(FAdd(FMul(frequency_score, w.frequency),
                           FMul(performance_score, w.performance)),
                      FMul(cost_score, w.cost)),
                 FMul(complexity_score, w.complexity))
    IN  [index_name |-> index_name, total_score |-> total_score,
         frequency_score |-> frequency_score,
         performance_score |-> performance_score,
         cost_score |-> cost_score, complexity_score |-> complexity_score,
         priority_level |-> determine_priority_level(total_score)]

\* the read-heavy mode applied after the write-heavy one
adjust_weights_read_after_write(w, read_heavy, write_heavy, storage_constrained) ==
    LET w1 == IF write_heavy
              THEN [w EXCEPT !.cost = <<2, 5>>, !.performance = <<3, 10>>]
              ELSE w
        w2 == IF read_heavy
              THEN [w1 EXCEPT !.performance = <<1, 2>>, !.frequency = <<3, 10>>]
              ELSE w1
    IN  IF storage_constrained
        THEN [w2 EXCEPT !.cost = <<1, 2>>, !.complexity = <<1, 5>>]
        ELSE w2

adjust_weights(w, read_heavy, write_heavy, storage_constrained) ==
    LET w1 == IF read_heavy
              THEN [w EXCEPT !.performance = <<1, 2>>, !.frequency = <<3, 10>>]
              ELSE w
        w2 == IF write_heavy
              THEN [w1 EXCEPT !.cost = <<2, 5>>, !.performance = <<3, 10>>]
              ELSE w1
    IN  IF storage_constrained
        THEN [w2 EXCEPT !.cost = <<1, 2>>, !.complexity = <<1, 5>>]
        ELSE w2

\* arguments of calculate_priority_score, at and around the bucket edges:
\* (frequency, performance_impact, maintenance_cost, complexity)
ScoreArgs ==
    {10, 11, 501, 1001}
    \X {FInt(5), FInt(11), FInt(26), FInt(51)}
    \X {FInt(1), FInt(5), FInt(10), FInt(20)}
    \X {<<1, 10>>, <<3, 10>>, <<1, 2>>, <<9, 10>>}

AdjustWeights ==
    /\ \E read_heavy \in BOOLEAN, write_heavy \in BOOLEAN,
          storage_constrained \in BOOLEAN :
          weights' = adjust_weights(weights, read_heavy, write_heavy,
                                    storage_constrained)
    /\ priority_score' = NoScore
    /\ UNCHANGED notScoring

CalculatePriorityScore ==
    /\ \E args \in ScoreArgs :
          priority_score' =
              calculate_priority_score(weights, "idx", args[1], args[2],
                                       args[3], args[4])
    /\ UNCHANGED <<weights, notScoring>>

---------------------------------------------------------------------------
(* Running averages, shared by the trackers *)

\* avg * (n - 1) + value, divided by n, with n the count after the increment
running_avg_counts_new_twice(avg, n, value) ==
    FDiv(FAdd(FMul(avg, FInt(n)), FInt(value)), FInt(n))

running_avg(avg, n, value) ==
    LET total_time == FAdd(FMul(avg, FInt(n - 1)), FInt(value))
    IN  FDiv(total_time, FInt(n))

\* one more value folded into a key of the bookkeeping of what was folded
Fold(f, key, value) ==
    IF key \in DOMAIN f
    THEN [f EXCEPT ![key] = [n |-> @.n + 1, sum |-> @.sum + value]]
    ELSE [k \in DOMAIN f \cup {key} |->
            IF k = key THEN [n |-> 1, sum |-> value] ELSE f[k]]

\* HashMap::insert(key, value): the value replaces the one the key has
OrInsert_replacing(map, key, value) ==
    [k \in DOMAIN map \cup {key} |-> IF k = key THEN value ELSE map[k]]

\* HashMap::entry(key).or_insert_with(value)
OrInsert(map, key, value) ==
    IF key \in DOMAIN map THEN map
    ELSE [k \in DOMAIN map \cup {key} |-> IF k = key THEN value ELSE map[k]]

---------------------------------------------------------------------------
(* ColumnTracker *)

ColumnUsage_new(column_name, table_name) ==
    [column_name |-> column_name, table_name |-> table_name,
     usage_count |-> 0, in_where_clause |-> 0, in_join_condition |-> 0,
     in_order_by |-> 0, avg_query_time |-> FInt(0)]

\* Some(column) is <<column>>, None is <<>>
\* the left side of any condition with an '=' taken as a column
extract_column_from_condition_any_left_side(condition) ==
    LET equals_pos == Find(condition, <<"=">>)
        left_side == trim(Slice(condition, 0, equals_pos))
    IN  IF equals_pos # -1
        THEN <<left_side>>
        ELSE <<>>

extract_column_from_condition(condition) ==
    LET equals_pos == Find(condition, <<"=">>)
        left_side == trim(Slice(condition, 0, equals_pos))
    IN  IF equals_pos # -1 /\ contains(left_side, <<".">>)
        THEN <<left_side>>
        ELSE <<>>

\* an ORDER BY use that falls into the match's default arm
update_column_stats_order_by_unmatched(stats, column, usage_type, execution_time) ==
    LET parts == split(column, <<".">>)
        fresh == IF contains(column, <<".">>)
                 THEN ColumnUsage_new(parts[2], parts[1])
                 ELSE ColumnUsage_new(column, <<"u", "n", "k", "n", "o", "w", "n">>)
        with == OrInsert(stats, column, fresh)
        entry == with[column]
        usage_count == entry.usage_count + 1
    IN  [with EXCEPT ![column] =
            [entry EXCEPT
                !.usage_count = usage_count,
                !.in_where_clause = IF usage_type = "WHERE" THEN @ + 1 ELSE @,
                !.in_join_condition = IF usage_type = "JOIN" THEN @ + 1 ELSE @,
                !.avg_query_time =
                    running_avg(@, usage_count, execution_time)]]

update_column_stats(stats, column, usage_type, execution_time) ==
    LET parts == split(column, <<".">>)
        fresh == IF contains(column, <<".">>)
                 THEN ColumnUsage_new(parts[2], parts[1])
                 ELSE ColumnUsage_new(column, <<"u", "n", "k", "n", "o", "w", "n">>)
        with == OrInsert(stats, column, fresh)
        entry == with[column]
        usage_count == entry.usage_count + 1
    IN  [with EXCEPT ![column] =
            [entry EXCEPT
                !.usage_count = usage_count,
                !.in_where_clause = IF usage_type = "WHERE" THEN @ + 1 ELSE @,
                !.in_join_condition = IF usage_type = "JOIN" THEN @ + 1 ELSE @,
                !.in_order_by = IF usage_type = "ORDER_BY" THEN @ + 1 ELSE @,
                !.avg_query_time =
                    running_avg(@, usage_count, execution_time)]]

\* the update_column_stats calls of one track_usage, in order
ColumnUpdates(parsed_query) ==
    LET of(conditions, usage_type) ==
            [i \in 1..Len(conditions) |->
                LET column == extract_column_from_condition(conditions[i])
                IN  IF column = <<>> THEN <<>>
                    ELSE <<[column |-> column[1], usage_type |-> usage_type]>>]
        RECURSIVE flatten(_)
        flatten(ss) == IF ss = <<>> THEN <<>> ELSE Head(ss) \o flatten(Tail(ss))
    IN  flatten(of(parsed_query.where_clauses, "WHERE"))
        \o flatten(of(parsed_query.join_conditions, "JOIN"))
        \o [i \in 1..Len(parsed_query.order_by_columns) |->
               [column |-> parsed_query.order_by_columns[i],
                usage_type |-> "ORDER_BY"]]

RECURSIVE ApplyColumnUpdates(_, _, _)
ApplyColumnUpdates(stats, updates, execution_time) ==
    IF updates = <<>> THEN stats
    ELSE ApplyColumnUpdates(
             update_column_stats(stats, Head(updates).column,
                                 Head(updates).usage_type, execution_time),
             Tail(updates), execution_time)

track_usage(stats, parsed_query, execution_time) ==
    ApplyColumnUpdates(stats, ColumnUpdates(parsed_query), execution_time)

---------------------------------------------------------------------------
(* JoinAnalyzer *)

\* Some((table1, table2)) is <<<<table1, table2>>>>, None is <<>>
extract_table_pair(join_condition) ==
    LET parts == split_whitespace(join_condition)
    IN  IF Len(parts) >= 2
        THEN <<<<parts[1], IF Len(parts) > 2 THEN parts[3] ELSE parts[2]>>>>
        ELSE <<>>

\* a key that keeps the order of its arguments
create_join_key_ordered(table1, table2) ==
    table1 \o <<"_", "J", "O", "I", "N", "_">> \o table2

create_join_key(table1, table2) ==
    IF StrLt(table1, table2)
    THEN table1 \o <<"_", "J", "O", "I", "N", "_">> \o table2
    ELSE table2 \o <<"_", "J", "O", "I", "N", "_">> \o table1

detect_join_type(join_condition) ==
    LET condition_upper == to_uppercase(join_condition)
    IN  IF contains(condition_upper, <<"L", "E", "F", "T", " ", "J", "O", "I", "N">>)
        THEN "LEFT"
        ELSE IF contains(condition_upper, <<"R", "I", "G", "H", "T", " ", "J", "O", "I", "N">>)
        THEN "RIGHT"
        ELSE "INNER"

calculate_performance_score(join_pattern) ==
    LET frequency_score ==
            FMin(FDiv(FInt(join_pattern.join_count), FInt(100)), FInt(1))
        time_score ==
            FMin(FDiv(FInt(1000), join_pattern.avg_execution_time), FInt(1))
    IN  FDiv(FAdd(frequency_score, time_score), FInt(2))

\* the body of the loop of analyze_join for one join condition
analyze_join_condition(stats, join_condition, execution_time) ==
    LET pair == extract_table_pair(join_condition)
    IN  IF pair = <<>> THEN stats
        ELSE LET table1 == pair[1][1]
                 table2 == pair[1][2]
                 key == create_join_key(table1, table2)
                 with == OrInsert(stats, key,
                            [table1 |-> table1, table2 |-> table2,
                             join_count |-> 0,
                             avg_execution_time |-> FInt(0),
                             join_type |-> detect_join_type(join_condition),
                             performance_score |-> FInt(0)])
                 counted == [with[key] EXCEPT !.join_count = @ + 1]
                 averaged ==
                     [counted EXCEPT !.avg_execution_time =
                         running_avg(@, counted.join_count, execution_time)]
             IN  [with EXCEPT ![key] =
                     [averaged EXCEPT !.performance_score =
                         calculate_performance_score(averaged)]]

RECURSIVE analyze_join(_, _, _)
analyze_join(stats, join_conditions, execution_time) ==
    IF join_conditions = <<>> THEN stats
    ELSE analyze_join(
             analyze_join_condition(stats, Head(join_conditions), execution_time),
             Tail(join_conditions), execution_time)

\* the (table1, table2) pairs one analyze_join records, in order
JoinPairs(join_conditions) ==
    LET RECURSIVE pairs(_)
        pairs(cs) ==
            IF cs = <<>> THEN <<>>
            ELSE extract_table_pair(Head(cs)) \o pairs(Tail(cs))
    IN  pairs(join_conditions)

RECURSIVE FoldAll(_, _, _)
FoldAll(f, keys, value) ==
    IF keys = <<>> THEN f
    ELSE FoldAll(Fold(f, Head(keys), value), Tail(keys), value)

---------------------------------------------------------------------------
(* QueryFingerprinter *)

generate_fingerprint(query) ==
    LET query_upper == to_uppercase(query)
        flag(keyword, label) ==
            IF contains(query_upper, keyword) THEN label ELSE <<>>
        table_count == matches_count(query_upper, <<"F", "R", "O", "M">>)
                       + matches_count(query_upper, <<"J", "O", "I", "N">>)
        condition_count == matches_count(query_upper, <<"A", "N", "D">>)
                           + matches_count(query_upper, <<"O", "R">>)
    IN  flag(<<"S", "E", "L", "E", "C", "T">>, <<"S", "E", "L", "E", "C", "T", "_">>)
        \o flag(<<"F", "R", "O", "M">>, <<"F", "R", "O", "M", "_">>)
        \o flag(<<"W", "H", "E", "R", "E">>, <<"W", "H", "E", "R", "E", "_">>)
        \o flag(<<"J", "O", "I", "N">>, <<"J", "O", "I", "N", "_">>)
        \o flag(<<"O", "R", "D", "E", "R", " ", "B", "Y">>, <<"O", "R", "D", "E", "R", "_">>)
        \o flag(<<"G", "R", "O", "U", "P", " ", "B", "Y">>, <<"G", "R", "O", "U", "P", "_">>)
        \o <<"T", "A", "B", "L", "E", "S", "_">> \o NatToStr(table_count)
        \o <<"_", "C", "O", "N", "D", "I", "T", "I", "O", "N", "S", "_">> \o NatToStr(condition_count)

\* a trend relabelled from the first query on
update_performance_trend_any_count(fingerprint) ==
    LET recent_avg == fingerprint.avg_execution_time
    IN  [fingerprint EXCEPT !.performance_trend =
            IF FLt(FInt(200), recent_avg) THEN "degrading"
            ELSE IF FLt(recent_avg, FInt(50)) THEN "improving"
            ELSE "stable"]

update_performance_trend(fingerprint) ==
    IF fingerprint.query_count >= 3
    THEN LET recent_avg == fingerprint.avg_execution_time
         IN  [fingerprint EXCEPT !.performance_trend =
                 IF FLt(FInt(200), recent_avg) THEN "degrading"
                 ELSE IF FLt(recent_avg, FInt(50)) THEN "improving"
                 ELSE "stable"]
    ELSE fingerprint

\* samples kept as the latest five: a full list gives up its oldest text
add_query_latest_samples(fps, query, execution_time) ==
    LET fingerprint == generate_fingerprint(query)
        with == OrInsert(fps, fingerprint,
                    [fingerprint |-> fingerprint, query_count |-> 0,
                     avg_execution_time |-> FInt(0), sample_queries |-> <<>>,
                     performance_trend |-> "stable"])
        counted == [with[fingerprint] EXCEPT !.query_count = @ + 1]
        averaged == [counted EXCEPT !.avg_execution_time =
                        running_avg(@, counted.query_count, execution_time)]
        sampled == IF Len(averaged.sample_queries) < 5
                   THEN [averaged EXCEPT !.sample_queries = Append(@, query)]
                   ELSE [averaged EXCEPT !.sample_queries = Append(Tail(@), query)]
    IN  [with EXCEPT ![fingerprint] = update_performance_trend(sampled)]

add_query(fps, query, execution_time) ==
    LET fingerprint == generate_fingerprint(query)
        with == OrInsert(fps, fingerprint,
                    [fingerprint |-> fingerprint, query_count |-> 0,
                     avg_execution_time |-> FInt(0), sample_queries |-> <<>>,
                     performance_trend |-> "stable"])
        counted == [with[fingerprint] EXCEPT !.query_count = @ + 1]
        averaged == [counted EXCEPT !.avg_execution_time =
                        running_avg(@, counted.query_count, execution_time)]
        sampled == IF Len(averaged.sample_queries) < 5
                   THEN [averaged EXCEPT !.sample_queries = Append(@, query)]
                   ELSE averaged
    IN  [with EXCEPT ![fingerprint] = update_performance_trend(sampled)]

---------------------------------------------------------------------------
(* TimeAnalyzer *)

\* a day of the week counted from the epoch day as day 0
timestamp_to_datetime_epoch_sunday(timestamp) ==
    LET seconds == timestamp \div 1000
        days_since_epoch == seconds \div 86400
    IN  [hour |-> ((seconds % 86400) \div 3600) % 256,
         day_of_week |-> (days_since_epoch % 7) % 256]

timestamp_to_datetime(timestamp) ==
    LET seconds == timestamp \div 1000
        days_since_epoch == seconds \div 86400
    IN  [hour |-> ((seconds % 86400) \div 3600) % 256,
         day_of_week |-> ((days_since_epoch + 4) % 7) % 256]

\* entry(bucket).or_insert((0, 0.0)), then count += 1 and total_time += time
bump_bucket(stats, bucket, execution_time) ==
    LET with == OrInsert(stats, bucket, <<0, FInt(0)>>)
    IN  [with EXCEPT ![bucket] = <<@[1] + 1, FAdd(@[2], FInt(execution_time))>>]

---------------------------------------------------------------------------
(* QueryLog and PatternAnalyzer *)

QueryLog_new(query, execution_time_ms, timestamp, tables_accessed, rows_scanned) ==
    [query |-> query, execution_time_ms |-> execution_time_ms,
     timestamp |-> timestamp, tables_accessed |-> tables_accessed,
     rows_scanned |-> rows_scanned]

query_type(log) ==
    LET query_upper == to_uppercase(trim(log.query))
    IN  IF starts_with(query_upper, <<"S", "E", "L", "E", "C", "T">>) THEN <<"S", "E", "L", "E", "C", "T">>
        ELSE IF starts_with(query_upper, <<"I", "N", "S", "E", "R", "T">>) THEN <<"I", "N", "S", "E", "R", "T">>
        ELSE IF starts_with(query_upper, <<"U", "P", "D", "A", "T", "E">>) THEN <<"U", "P", "D", "A", "T", "E">>
        ELSE IF starts_with(query_upper, <<"D", "E", "L", "E", "T", "E">>) THEN <<"D", "E", "L", "E", "T", "E">>
        ELSE <<"O", "T", "H", "E", "R">>

add_log(ls, log) ==
    Append(ls, log)

\* only the first log of a query type
LogsOfType_first_only(ls, type) ==
    LET hits == {i \in 1..Len(ls) : query_type(ls[i]) = type}
    IN  IF hits = {} THEN <<>>
        ELSE <<ls[CHOOSE i \in hits : \A j \in hits : i <= j]>>

\* the logs of one query type, in the order they were stored
RECURSIVE LogsOfType(_, _)
LogsOfType(ls, type) ==
    IF ls = <<>> THEN <<>>
    ELSE (IF query_type(Head(ls)) = type THEN <<Head(ls)>> ELSE <<>>)
         \o LogsOfType(Tail(ls), type)

\* the keys of the map that groups the logs by query type
GroupKeys(ls) ==
    {query_type(ls[i]) : i \in 1..Len(ls)}

\* the orders in which a map with these keys may be iterated
IterationOrders(keys) ==
    {order \in [1..Cardinality(keys) -> keys] :
        \A i, j \in 1..Cardinality(keys) : i # j => order[i] # order[j]}

RECURSIVE InsertString(_, _)
InsertString(sorted, x) ==
    IF sorted = <<>> THEN <<x>>
    ELSE IF StrLt(x, Head(sorted)) THEN <<x>> \o sorted
    ELSE <<Head(sorted)>> \o InsertString(Tail(sorted), x)

\* tables.sort(); tables.dedup()
RECURSIVE SortDedup(_)
SortDedup(tables) ==
    IF tables = <<>> THEN <<>>
    ELSE LET rest == SortDedup(Tail(tables))
         IN  IF \E i \in 1..Len(rest) : rest[i] = Head(tables)
             THEN rest
             ELSE InsertString(rest, Head(tables))

\* the execution times of some logs
Times(ls) ==
    [i \in 1..Len(ls) |-> ls[i].execution_time_ms]

\* the QueryPattern built from one group of the map
pattern_of_group(type, group) ==
    LET RECURSIVE flat_tables(_)
        flat_tables(ls) ==
            IF ls = <<>> THEN <<>>
            ELSE Head(ls).tables_accessed \o flat_tables(Tail(ls))
        total_time == Sum(Times(group))
        total_rows == Sum([i \in 1..Len(group) |-> group[i].rows_scanned])
        avg_time == FDiv(FInt(total_time), FInt(Len(group)))
        slowness_score == FMul(avg_time, FInt(Len(group)))
    IN  [query_type |-> type, avg_execution_time_ms |-> avg_time,
         frequency |-> Len(group), tables |-> SortDedup(flat_tables(group)),
         slowness_score |-> slowness_score,
         total_rows_scanned |-> total_rows]

analyze(ls, order) ==
    [i \in 1..Len(order) |-> pattern_of_group(order[i], LogsOfType(ls, order[i]))]

---------------------------------------------------------------------------
(* IndexRecommender *)

calculate_improvement(pattern) ==
    LET frequency_bonus == FMin(FDiv(FInt(pattern.frequency), FInt(100)), FInt(30))
        slowness_bonus == FMin(FDiv(pattern.slowness_score, FInt(10000)), FInt(20))
    IN  FAdd(FAdd(FInt(40), frequency_bonus), slowness_bonus)

calculate_priority(pattern) ==
    LET base == IF FLt(FInt(10000), pattern.slowness_score) THEN 100 ELSE 50
        tenth == pattern.frequency \div 10
        freq_bonus == IF tenth < 50 THEN tenth ELSE 50
    IN  base + freq_bonus

suggest_index_type(pattern) ==
    IF pattern.query_type = <<"S", "E", "L", "E", "C", "T">> /\ pattern.frequency > 100
    THEN "Hash"
    ELSE "BTree"

\* the fields format! puts into the reason text
generate_reason(pattern) ==
    <<pattern.query_type, pattern.frequency, pattern.avg_execution_time_ms>>

\* recommendations only for a pattern above both thresholds
recommendations_of_both_thresholds(r, pattern) ==
    IF /\ FLt(r.slowness_threshold, pattern.slowness_score)
       /\ pattern.frequency > r.frequency_threshold
    THEN [i \in 1..Len(pattern.tables) |->
            [table |-> pattern.tables[i], column |-> <<"i", "d">>,
             index_type |-> suggest_index_type(pattern),
             priority |-> calculate_priority(pattern),
             estimated_improvement_percent |-> calculate_improvement(pattern),
             reason |-> generate_reason(pattern)]]
    ELSE <<>>

\* the recommendations of one pattern, one per table
recommendations_of(r, pattern) ==
    IF \/ FLt(r.slowness_threshold, pattern.slowness_score)
       \/ pattern.frequency > r.frequency_threshold
    THEN [i \in 1..Len(pattern.tables) |->
            [table |-> pattern.tables[i], column |-> <<"i", "d">>,
             index_type |-> suggest_index_type(pattern),
             priority |-> calculate_priority(pattern),
             estimated_improvement_percent |-> calculate_improvement(pattern),
             reason |-> generate_reason(pattern)]]
    ELSE <<>>

\* the list built by the loops of recommend, before it is sorted
RECURSIVE generated(_, _)
generated(r, ps) ==
    IF ps = <<>> THEN <<>>
    ELSE recommendations_of(r, Head(ps)) \o generated(r, Tail(ps))

\* an insertion that puts a recommendation before those of equal priority
RECURSIVE insert_by_priority_before_ties(_, _)
insert_by_priority_before_ties(sorted, rec) ==
    IF sorted = <<>> THEN <<rec>>
    ELSE IF rec.priority >= Head(sorted).priority THEN <<rec>> \o sorted
    ELSE <<Head(sorted)>> \o insert_by_priority_before_ties(Tail(sorted), rec)

\* sort_by(|a, b| b.priority.cmp(&a.priority)) is stable: a recommendation
\* goes after those of equal priority that precede it
RECURSIVE insert_by_priority(_, _)
insert_by_priority(sorted, rec) ==
    IF sorted = <<>> THEN <<rec>>
    ELSE IF rec.priority > Head(sorted).priority THEN <<rec>> \o sorted
    ELSE <<Head(sorted)>> \o insert_by_priority(Tail(sorted), rec)

RECURSIVE sort_by_priority(_)
sort_by_priority(recs) ==
    IF recs = <<>> THEN <<>>
    ELSE insert_by_priority(sort_by_priority(SubSeq(recs, 1, Len(recs) - 1)),
                            recs[Len(recs)])

recommend(r, ps) ==
    sort_by_priority(generated(r, ps))

---------------------------------------------------------------------------
(* Read accessors of the trackers; order is the order in which values()
   iterates the map *)

get_most_used_columns(stats, order, limit) ==
    LET columns == [i \in 1..Len(order) |-> stats[order[i]]]
        \* sort_by(|a, b| b.usage_count.cmp(&a.usage_count)), a stable sort
        RECURSIVE sorted(_)
        sorted(n) ==
            IF n = 0 THEN <<>>
            ELSE LET before == sorted(n - 1)
                     keep == { k \in 0..Len(before) :
                                 \A j \in 1..k :
                                     before[j].usage_count >= columns[n].usage_count }
                     at == CHOOSE k \in keep : \A other \in keep : other <= k
                 IN  SubSeq(before, 1, at) \o <<columns[n]>>
                     \o SubSeq(before, at + 1, Len(before))
        all == sorted(Len(columns))
    IN  SubSeq(all, 1, IF limit < Len(all) THEN limit ELSE Len(all))

get_frequent_joins(stats, order, limit) ==
    LET joins == [i \in 1..Len(order) |-> stats[order[i]]]
        \* sort_by(|a, b| b.join_count.cmp(&a.join_count)), a stable sort
        RECURSIVE sorted(_)
        sorted(n) ==
            IF n = 0 THEN <<>>
            ELSE LET before == sorted(n - 1)
                     keep == { k \in 0..Len(before) :
                                 \A j \in 1..k :
                                     before[j].join_count >= joins[n].join_count }
                     at == CHOOSE k \in keep : \A other \in keep : other <= k
                 IN  SubSeq(before, 1, at) \o <<joins[n]>>
                     \o SubSeq(before, at + 1, Len(before))
        all == sorted(Len(joins))
    IN  SubSeq(all, 1, IF limit < Len(all) THEN limit ELSE Len(all))

---------------------------------------------------------------------------
(* PerformancePredictor *)

NoPrediction ==
    [estimated_time_ms |-> 0, confidence |-> FInt(0), recommendation |-> "none",
     query_type |-> <<>>, rows_to_scan |-> 0]

\* a baseline without the fixed 10 ms
estimate_baseline_rows_only(rows_to_scan) ==
    rows_to_scan \div 100

estimate_baseline(rows_to_scan) ==
    LET base_time == 10
    IN  base_time + (rows_to_scan \div 100)

FMax(a, b) ==
    IF FIsNaN(a) THEN b
    ELSE IF FIsNaN(b) THEN a
    ELSE IF FLt(a, b) THEN b ELSE a

\* f64 as u64 of a finite value that is not negative
FToU64(a) ==
    a[1] \div a[2]

\* query_type and rows_to_scan are the arguments, kept beside the result
predict(history, cache, type, rows_to_scan) ==
    LET similar_queries == LogsOfType(history, type)
    IN  IF similar_queries = <<>>
        THEN [estimated_time_ms |-> estimate_baseline(rows_to_scan),
              confidence |-> <<3, 10>>,
              recommendation |-> "No historical data available",
              query_type |-> type, rows_to_scan |-> rows_to_scan]
        ELSE LET avg_time == Sum(Times(similar_queries))
                             \div Len(similar_queries)
                 row_factor == FMax(FDiv(FInt(rows_to_scan), FInt(1000)), FInt(1))
                 estimated_time == FToU64(FMul(FInt(avg_time), row_factor))
                 cache_factor == IF cache THEN <<3, 5>> ELSE FInt(1)
                 final_estimate == FToU64(FMul(FInt(estimated_time), cache_factor))
                 confidence == FMin(FDiv(FInt(Len(similar_queries)), FInt(10)),
                                    <<19, 20>>)
             IN  [estimated_time_ms |-> final_estimate,
                  confidence |-> confidence,
                  recommendation |->
                      IF final_estimate > 100
                      THEN "Consider adding index or optimizing query"
                      ELSE "Query performance looks good",
                  query_type |-> type, rows_to_scan |-> rows_to_scan]

---------------------------------------------------------------------------
(* QueryParser *)

\* ParsedQuery::new(); panicked is not a field of the struct: it tells that
\* parse unwound on a slice whose start is past its end and returned nothing
ParsedQuery_new ==
    [where_clauses |-> <<>>, join_conditions |-> <<>>, order_by_columns |-> <<>>,
     select_columns |-> <<>>, from_tables |-> <<>>, query_fingerprint |-> <<>>,
     panicked |-> FALSE]

\* offset in text of the first clause keyword after its first character,
\* -1 for None
find_clause_end(text) ==
    LET keywords == <<<<"W", "H", "E", "R", "E">>, <<"O", "R", "D", "E", "R", " ", "B", "Y">>,
                      <<"G", "R", "O", "U", "P", " ", "B", "Y">>,
                      <<"H", "A", "V", "I", "N", "G">>, <<"L", "I", "M", "I", "T">>>>
        found == { Find(Slice(text, 1, Len(text)), keywords[k]) + 1 :
                     k \in 1..Len(keywords) } \ {0}
    IN  IF found = {} THEN -1
        ELSE CHOOSE pos \in found : \A other \in found : pos <= other

\* map(trim) and filter(not empty) over the pieces of a split
trimmed_pieces(pieces) ==
    SelectSeq([i \in 1..Len(pieces) |-> trim(pieces[i])], LAMBDA piece : piece # <<>>)

extract_conditions(where_clause) ==
    trimmed_pieces(split(where_clause, <<"A", "N", "D">>) \o split(where_clause, <<"O", "R">>))

\* the loop of extract_joins from the offset start on
RECURSIVE extract_joins_from(_, _)
extract_joins_from(query, start) ==
    LET join_pos == Find(Slice(to_uppercase(query), start, Len(query)), <<"J", "O", "I", "N">>)
        actual_pos == start + join_pos
        end == find_clause_end(Slice(query, actual_pos, Len(query)))
    IN  IF join_pos = -1 \/ end = -1 THEN <<>>
        ELSE <<trim(Slice(query, actual_pos, actual_pos + end))>>
             \o extract_joins_from(query, actual_pos + end)

extract_joins(query) ==
    extract_joins_from(query, 0)

extract_columns(clause) ==
    trimmed_pieces(split(clause, <<",">>))

extract_tables(clause) ==
    LET pieces == split(clause, <<",">>)
        first_word(piece) == LET words == split_whitespace(trim(piece))
                             IN  IF words = <<>> THEN <<>> ELSE words[1]
    IN  SelectSeq([i \in 1..Len(pieces) |-> first_word(pieces[i])],
                  LAMBDA word : word # <<>>)

parse(query) ==
    LET query_upper == to_uppercase(query)
        where_start == Find(query_upper, <<"W", "H", "E", "R", "E">>)
        where_end == IF where_start = -1 THEN -1
                     ELSE find_clause_end(Slice(query, where_start, Len(query)))
        order_start == Find(query_upper, <<"O", "R", "D", "E", "R", " ", "B", "Y">>)
        order_end == IF order_start = -1 THEN -1
                     ELSE find_clause_end(Slice(query, order_start, Len(query)))
        select_start == Find(query_upper, <<"S", "E", "L", "E", "C", "T">>)
        from_start == Find(query_upper, <<"F", "R", "O", "M">>)
        from_end == IF where_start # -1 THEN where_start
                    ELSE IF order_start # -1 THEN order_start
                    ELSE Len(query)
        \* &query[a..b] panics when a > b
        panics == \/ where_end # -1 /\ where_start + 5 > where_start + where_end
                  \/ order_end # -1 /\ order_start + 9 > order_start + order_end
                  \/ select_start # -1 /\ from_start # -1
                     /\ select_start + 6 > from_start
                  \/ from_start # -1 /\ from_start + 4 > from_end
        where_clauses ==
            IF where_end = -1 THEN <<>>
            ELSE extract_conditions(Slice(query, where_start + 5, where_start + where_end))
        join_conditions == extract_joins(query)
        order_by_columns ==
            IF order_end = -1 THEN <<>>
            ELSE extract_columns(Slice(query, order_start + 9, order_start + order_end))
        select_columns ==
            IF select_start = -1 \/ from_start = -1 THEN <<>>
            ELSE extract_columns(Slice(query, select_start + 6, from_start))
        from_tables ==
            IF from_start = -1 THEN <<>>
            ELSE extract_tables(Slice(query, from_start + 4, from_end))
    IN  IF panics THEN [ParsedQuery_new EXCEPT !.panicked = TRUE]
        ELSE [where_clauses |-> where_clauses,
              join_conditions |-> join_conditions,
              order_by_columns |-> order_by_columns,
              select_columns |-> select_columns,
              from_tables |-> from_tables,
              query_fingerprint |->
                  <<"S", "E", "L", "E", "C", "T", "_">> \o NatToStr(Len(select_columns))
                  \o <<"_", "F", "R", "O", "M", "_">> \o NatToStr(Len(from_tables))
                  \o <<"_", "W", "H", "E", "R", "E", "_">> \o NatToStr(Len(where_clauses))
                  \o <<"_", "J", "O", "I", "N", "_">> \o NatToStr(Len(join_conditions))
                  \o <<"_", "O", "R", "D", "E", "R", "_">> \o NatToStr(Len(order_by_columns)),
              panicked |-> FALSE]

---------------------------------------------------------------------------
(* CostCalculator *)

calculate_cost(rows_scanned, execution_time, join_count, has_order_by, has_group_by) ==
    LET base_row_cost == <<1, 1000>>
        join_multiplier == <<3, 2>>
        sort_multiplier == FInt(2)
        base_cost == FInt(execution_time)
        row_scan_cost == FMul(FInt(rows_scanned), base_row_cost)
        join_cost == IF join_count > 0
                     THEN FMul(FMul(row_scan_cost, join_multiplier), FInt(join_count))
                     ELSE FInt(0)
        sort_cost == IF has_order_by \/ has_group_by
                     THEN FMul(row_scan_cost, sort_multiplier)
                     ELSE FInt(0)
        total_cost == FAdd(FAdd(FAdd(base_cost, row_scan_cost), join_cost), sort_cost)
    IN  [base_cost |-> base_cost, row_scan_cost |-> row_scan_cost,
         join_cost |-> join_cost, sort_cost |-> sort_cost, total_cost |-> total_cost,
         cost_category |-> IF FLt(total_cost, FInt(10)) THEN "low"
                           ELSE IF FLt(total_cost, FInt(100)) THEN "medium"
                           ELSE "high"]

calculate_from_parsed(parsed_query, execution_time, rows_scanned) ==
    LET join_count == Len(parsed_query.join_conditions)
        has_order_by == parsed_query.order_by_columns # <<>>
        has_group_by == FALSE
    IN  calculate_cost(rows_scanned, execution_time, join_count, has_order_by, has_group_by)

---------------------------------------------------------------------------
(* IndexRemovalRecommender *)

\* a recommendation also at a confidence of exactly 0.5
evaluate_index_for_removal_from_half(stats) ==
    LET usage_threshold == 10
        time_threshold == 86400 * 30
        benefit_threshold == <<1, 10>>
        low == stats.usage_count < usage_threshold
        stale == stats.last_used < time_threshold
        costly == FLt(stats.query_benefit,
                      FMul(stats.maintenance_cost, benefit_threshold))
        unused == stats.usage_count = 0
        reasons == (IF low THEN <<"Low usage frequency">> ELSE <<>>)
                   \o (IF stale THEN <<"Not used recently">> ELSE <<>>)
                   \o (IF costly THEN <<"Low benefit compared to maintenance cost">>
                       ELSE <<>>)
                   \o (IF unused THEN <<"Never used">> ELSE <<>>)
        confidence ==
            FAdd(FAdd(FAdd(FAdd(FInt(0), IF low THEN <<3, 10>> ELSE FInt(0)),
                           IF stale THEN <<1, 5>> ELSE FInt(0)),
                      IF costly THEN <<2, 5>> ELSE FInt(0)),
                 IF unused THEN <<1, 2>> ELSE FInt(0))
        \* determine_risk_level
        risk_level ==
            IF FLt(<<4, 5>>, confidence) /\ stats.usage_count = 0 THEN "Very Low"
            ELSE IF FLt(<<7, 10>>, confidence) /\ stats.usage_count < 5 THEN "Low"
            ELSE IF FLt(<<3, 5>>, confidence) THEN "Medium"
            ELSE "High"
        \* calculate_savings
        estimated_savings == FAdd(FInt(50), FMul(stats.maintenance_cost, FInt(100)))
        \* generate_drop_sql
        sql_statement == <<"D", "R", "O", "P", " ", "I", "N", "D", "E", "X", " ">> \o stats.index_name
                         \o <<" ", "O", "N", " ">> \o stats.table_name
    IN  IF ~FLt(confidence, <<1, 2>>)
        THEN <<[index_name |-> stats.index_name, table_name |-> stats.table_name,
                removal_reason |-> reasons, confidence_score |-> confidence,
                estimated_savings |-> estimated_savings, risk_level |-> risk_level,
                sql_statement |-> sql_statement]>>
        ELSE <<>>

\* Some(recommendation) is <<recommendation>>, None is <<>>; removal_reason
\* is the list of reasons that join(", ") puts into one text
\* a zero usage count that adds 0.2 to the confidence
evaluate_index_for_removal_never_used_fifth(stats) ==
    LET usage_threshold == 10
        time_threshold == 86400 * 30
        benefit_threshold == <<1, 10>>
        low == stats.usage_count < usage_threshold
        stale == stats.last_used < time_threshold
        costly == FLt(stats.query_benefit,
                      FMul(stats.maintenance_cost, benefit_threshold))
        unused == stats.usage_count = 0
        reasons == (IF low THEN <<"Low usage frequency">> ELSE <<>>)
                   \o (IF stale THEN <<"Not used recently">> ELSE <<>>)
                   \o (IF costly THEN <<"Low benefit compared to maintenance cost">>
                       ELSE <<>>)
                   \o (IF unused THEN <<"Never used">> ELSE <<>>)
        confidence ==
            FAdd(FAdd(FAdd(FAdd(FInt(0), IF low THEN <<3, 10>> ELSE FInt(0)),
                           IF stale THEN <<1, 5>> ELSE FInt(0)),
                      IF costly THEN <<2, 5>> ELSE FInt(0)),
                 IF unused THEN <<1, 5>> ELSE FInt(0))
        \* determine_risk_level
        risk_level ==
            IF FLt(<<4, 5>>, confidence) /\ stats.usage_count = 0 THEN "Very Low"
            ELSE IF FLt(<<7, 10>>, confidence) /\ stats.usage_count < 5 THEN "Low"
            ELSE IF FLt(<<3, 5>>, confidence) THEN "Medium"
            ELSE "High"
        \* calculate_savings
        estimated_savings == FAdd(FInt(50), FMul(stats.maintenance_cost, FInt(100)))
        \* generate_drop_sql
        sql_statement == <<"D", "R", "O", "P", " ", "I", "N", "D", "E", "X", " ">> \o stats.index_name
                         \o <<" ", "O", "N", " ">> \o stats.table_name
    IN  IF FLt(<<1, 2>>, confidence)
        THEN <<[index_name |-> stats.index_name, table_name |-> stats.table_name,
                removal_reason |-> reasons, confidence_score |-> confidence,
                estimated_savings |-> estimated_savings, risk_level |-> risk_level,
                sql_statement |-> sql_statement]>>
        ELSE <<>>

evaluate_index_for_removal(stats) ==
    LET usage_threshold == 10
        time_threshold == 86400 * 30
        benefit_threshold == <<1, 10>>
        low == stats.usage_count < usage_threshold
        stale == stats.last_used < time_threshold
        costly == FLt(stats.query_benefit,
                      FMul(stats.maintenance_cost, benefit_threshold))
        unused == stats.usage_count = 0
        reasons == (IF low THEN <<"Low usage frequency">> ELSE <<>>)
                   \o (IF stale THEN <<"Not used recently">> ELSE <<>>)
                   \o (IF costly THEN <<"Low benefit compared to maintenance cost">>
                       ELSE <<>>)
                   \o (IF unused THEN <<"Never used">> ELSE <<>>)
        confidence ==
            FAdd(FAdd(FAdd(FAdd(FInt(0), IF low THEN <<3, 10>> ELSE FInt(0)),
                           IF stale THEN <<1, 5>> ELSE FInt(0)),
                      IF costly THEN <<2, 5>> ELSE FInt(0)),
                 IF unused THEN <<1, 2>> ELSE FInt(0))
        \* determine_risk_level
        risk_level ==
            IF FLt(<<4, 5>>, confidence) /\ stats.usage_count = 0 THEN "Very Low"
            ELSE IF FLt(<<7, 10>>, confidence) /\ stats.usage_count < 5 THEN "Low"
            ELSE IF FLt(<<3, 5>>, confidence) THEN "Medium"
            ELSE "High"
        \* calculate_savings
        estimated_savings == FAdd(FInt(50), FMul(stats.maintenance_cost, FInt(100)))
        \* generate_drop_sql
        sql_statement == <<"D", "R", "O", "P", " ", "I", "N", "D", "E", "X", " ">> \o stats.index_name
                         \o <<" ", "O", "N", " ">> \o stats.table_name
    IN  IF FLt(<<1, 2>>, confidence)
        THEN <<[index_name |-> stats.index_name, table_name |-> stats.table_name,
                removal_reason |-> reasons, confidence_score |-> confidence,
                estimated_savings |-> estimated_savings, risk_level |-> risk_level,
                sql_statement |-> sql_statement]>>
        ELSE <<>>

analyze_index_usage(usage_stats) ==
    LET RECURSIVE pushed(_)
        pushed(n) ==
            IF n = 0 THEN <<>>
            ELSE pushed(n - 1) \o evaluate_index_for_removal(usage_stats[n])
        found == pushed(Len(usage_stats))
        \* sort_by on b.confidence_score.partial_cmp(&a.confidence_score), a
        \* stable sort
        RECURSIVE sorted(_)
        sorted(n) ==
            IF n = 0 THEN <<>>
            ELSE LET before == sorted(n - 1)
                     keep == { k \in 0..Len(before) :
                                 \A j \in 1..k :
                                     ~FLt(before[j].confidence_score,
                                          found[n].confidence_score) }
                     at == CHOOSE k \in keep : \A other \in keep : other <= k
                 IN  SubSeq(before, 1, at) \o <<found[n]>>
                     \o SubSeq(before, at + 1, Len(before))
    IN  sorted(Len(found))

---------------------------------------------------------------------------
(* Inputs of the trackers *)

\* execution times (ms) of the recorded queries
ExecTimes == {0, 300}

ParsedQuery(where_clauses, join_conditions, order_by_columns) ==
    [where_clauses |-> where_clauses, join_conditions |-> join_conditions,
     order_by_columns |-> order_by_columns]

\* parsed queries handed to track_usage and analyze_join
ParsedChoices ==
    { ParsedQuery(<<<<"u", ".", "i", "d", " ", "=", " ", "1">>, <<"a", "c", "t", "i", "v", "e">>>>, <<>>,
                  <<<<"n", "a", "m", "e">>>>),
      ParsedQuery(<<<<"i", "d", " ", "=", " ", "1">>>>,
                  <<<<"u", "s", "e", "r", "s", " ", "J", "O", "I", "N", " ", "o", "r", "d", "e", "r", "s">>>>,
                  <<<<"u", ".", "i", "d">>>>),
      ParsedQuery(<<>>,
                  <<<<"o", "r", "d", "e", "r", "s", " ", "J", "O", "I", "N", " ", "u", "s", "e", "r", "s">>, <<"o", ".", "u", "i", "d", " ", "=", " ", "u", ".", "i", "d">>>>,
                  <<>>),
      ParsedQuery(<<<<"i", "d", " ", "=", " ", "1">>>>,
                  <<<<"u", "s", "e", "r", "s", " ", "l", "e", "f", "t", " ", "j", "o", "i", "n", " ", "o", "r", "d", "e", "r", "s">>, <<"o", "r", "d", "e", "r", "s">>>>,
                  <<>>) }

\* query texts handed to add_query
FingerprintQueries ==
    { <<"S", "E", "L", "E", "C", "T", " ", "*", " ", "F", "R", "O", "M", " ", "t">>,
      <<"s", "e", "l", "e", "c", "t", " ", "*", " ", "f", "r", "o", "m", " ", "t">>,
      <<"S", "E", "L", "E", "C", "T", " ", "a", " ", "F", "R", "O", "M", " ", "t", " ", "O", "R", "D", "E", "R", " ", "B", "Y", " ", "a">> }

\* the log records a caller stores one at a time
LogChoices ==
    { QueryLog_new(<<"S", "E", "L", "E", "C", "T", " ", "i", "d", " ", "F", "R", "O", "M", " ", "u", "s", "e", "r", "s">>,
                   90, 2500, <<<<"u", "s", "e", "r", "s">>>>, 10),
      QueryLog_new(<<"I", "N", "S", "E", "R", "T", " ", "I", "N", "T", "O", " ", "o", "r", "d", "e", "r", "s">>,
                   50, 3000, <<<<"o", "r", "d", "e", "r", "s">>>>, 1),
      QueryLog_new(<<"E", "X", "P", "L", "A", "I", "N", " ", "S", "E", "L", "E", "C", "T", " ", "1">>,
                   20000, 4000, <<>>, 0) }

\* the batches handed to add_logs
LogBatches ==
    { <<QueryLog_new(<<"S", "E", "L", "E", "C", "T", " ", "*", " ", "F", "R", "O", "M", " ", "u", "s", "e", "r", "s">>,
                     150, 1000, <<<<"u", "s", "e", "r", "s">>>>, 1000),
        QueryLog_new(<<" ", "s", "e", "l", "e", "c", "t", " ", "1", " ", "f", "r", "o", "m", " ", "u", "s", "e", "r", "s">>,
                     250, 2000, <<<<"u", "s", "e", "r", "s">>, <<"o", "r", "d", "e", "r", "s">>>>, 5000)>>,
      <<QueryLog_new(<<"d", "e", "l", "e", "t", "e", " ", "F", "R", "O", "M", " ", "o", "r", "d", "e", "r", "s">>,
                     20000, 5000, <<<<"o", "r", "d", "e", "r", "s">>>>, 7),
        QueryLog_new(<<"D", "E", "L", "E", "T", "E", " ", "F", "R", "O", "M", " ", "u", "s", "e", "r", "s">>,
                     70, 5500, <<<<"u", "s", "e", "r", "s">>>>, 9)>> }

\* the log records handed to the predictor
HistoryChoices ==
    LogChoices \cup
    { QueryLog_new(<<"U", "P", "D", "A", "T", "E", " ", "u", "s", "e", "r", "s">>,
                   150, 6000, <<<<"u", "s", "e", "r", "s">>>>, 3000),
      QueryLog_new(<<"S", "E", "L", "E", "C", "T", " ", "*", " ", "F", "R", "O", "M", " ", "u", "s", "e", "r", "s">>,
                   150, 1000, <<<<"u", "s", "e", "r", "s">>>>, 1000),
      QueryLog_new(<<"S", "E", "L", "E", "C", "T", " ", "*", " ", "F", "R", "O", "M", " ", "u", "s", "e", "r", "s">>,
                   250, 2000, <<<<"u", "s", "e", "r", "s">>>>, 5000) }

\* the clauses query texts are put together from, in any order
QueryClauses ==
    << <<"S", "E", "L", "E", "C", "T", " ", "a", ",", " ", "b">>,
       <<"F", "R", "O", "M", " ", "t", ",", " ", "u", " ", "v">>,
       <<"W", "H", "E", "R", "E", " ", "x", " ", "=", " ", "1", " ", "A", "N", "D", " ", "y", " ", "=", " ", "2">>,
       <<"J", "O", "I", "N", " ", "o">>,
       <<"O", "R", "D", "E", "R", " ", "B", "Y", " ", "a">>,
       <<"G", "R", "O", "U", "P", " ", "B", "Y", " ", "a">>,
       <<"L", "I", "M", "I", "T", " ", "5">>,
       <<"w", "h", "e", "r", "e", " ", "x", " ", "=", " ", "1">>,
       <<"o", "r", "d", "e", "r", " ", "b", "y", " ", "b">>,
       <<"W", "H", "E", "R", "E", " ", "x", " ", "=", " ", "1", " ", "O", "R", " ", "y", " ", "=", " ", "2">> >>

\* query texts: up to MaxClauses clauses with a space between them
QueryTexts ==
    LET RECURSIVE text_of(_)
        text_of(clauses) ==
            IF clauses = <<>> THEN <<>>
            ELSE IF Len(clauses) = 1 THEN QueryClauses[clauses[1]]
            ELSE QueryClauses[clauses[1]] \o <<" ">> \o text_of(Tail(clauses))
    IN  { text_of(clauses) :
            clauses \in UNION { [1..n -> 1..Len(QueryClauses)] : n \in 0..MaxClauses } }

\* the usage statistics of up to MaxIndexes indexes of one table
IndexStatsChoices ==
    LET names == <<"a", "b", "c">>
        of(i) == { [index_name |-> <<names[i]>>, table_name |-> <<"t">>,
                    usage_count |-> usage_count, last_used |-> last_used,
                    query_benefit |-> benefit, maintenance_cost |-> FInt(1)] :
                   usage_count \in {0, 9, 10},
                   last_used \in {2591999, 2592000},
                   benefit \in {<<9, 100>>, <<1, 10>>, FInt(5)} }
    IN  { usage_stats \in UNION { [1..n -> UNION { of(i) : i \in 1..n }] :
                                    n \in 0..MaxIndexes } :
            \A i \in 1..Len(usage_stats) : usage_stats[i] \in of(i) }

QueryPattern(type, avg, frequency, tables, slowness) ==
    [query_type |-> type, avg_execution_time_ms |-> avg,
     frequency |-> frequency, tables |-> tables, slowness_score |-> slowness,
     total_rows_scanned |-> 0]

\* pattern slices a caller builds by hand
PatternSlices ==
    LET select == <<"S", "E", "L", "E", "C", "T">>
        update == <<"U", "P", "D", "A", "T", "E">>
        rare == QueryPattern(update, FInt(5), 2, <<<<"o", "r", "d", "e", "r", "s">>>>, FInt(10))
        slow == QueryPattern(select, FInt(200), 60, <<<<"o", "r", "d", "e", "r", "s">>, <<"u", "s", "e", "r", "s">>>>, FInt(12000))
        busy == QueryPattern(select, FInt(2), 600, <<<<"u", "s", "e", "r", "s">>>>, FInt(1200))
        hot == QueryPattern(update, FInt(40), 520, <<<<"o", "r", "d", "e", "r", "s">>>>, FInt(20800))
        calm == QueryPattern(select, FInt(3000), 4, <<<<"u", "s", "e", "r", "s">>>>, FInt(12000))
    IN  { <<rare, busy, slow, hot>>, <<hot, slow, busy>>, <<busy, rare, calm>> }

\* (slowness_threshold, frequency_threshold) pairs given to IndexRecommender::new
MainRecommender ==
    [slowness_threshold |-> FInt(100), frequency_threshold |-> 1]

RecommenderChoices ==
    { MainRecommender,
      [slowness_threshold |-> FInt(50), frequency_threshold |-> 1],
      [slowness_threshold |-> FInt(15000), frequency_threshold |-> 100] }

TrackUsage ==
    /\ ops > 0
    /\ \E parsed_query \in ParsedChoices, execution_time \in ExecTimes :
          /\ column_stats' =
                 track_usage(column_stats, parsed_query, execution_time)
          /\ folded' = [folded EXCEPT
                 !.column =
                     FoldAll(@, [i \in 1..Len(ColumnUpdates(parsed_query)) |->
                                    ColumnUpdates(parsed_query)[i].column],
                             execution_time),
                 !.tracked = [calls |-> @.calls + 1,
                              parsed_query |-> <<parsed_query>>]]
    /\ ops' = ops - 1
    /\ UNCHANGED <<join_stats, fingerprints, hourly_stats, daily_stats,
                   notTrackers>>

AnalyzeJoin ==
    /\ ops > 0
    /\ \E parsed_query \in ParsedChoices, execution_time \in ExecTimes :
          /\ join_stats' = analyze_join(join_stats,
                 parsed_query.join_conditions, execution_time)
          /\ folded' = [folded EXCEPT !.join =
                 FoldAll(@, JoinPairs(parsed_query.join_conditions),
                         execution_time)]
    /\ ops' = ops - 1
    /\ UNCHANGED <<column_stats, fingerprints, hourly_stats, daily_stats,
                   notTrackers>>

AddQuery ==
    /\ ops > 0
    /\ \E query \in FingerprintQueries, execution_time \in ExecTimes :
          /\ fingerprints' = add_query(fingerprints, query, execution_time)
          /\ folded' = [folded EXCEPT
                 !.fingerprint =
                     Fold(@, generate_fingerprint(query), execution_time),
                 !.queries =
                     LET fingerprint == generate_fingerprint(query)
                     IN  [OrInsert(@, fingerprint, <<>>) EXCEPT
                             ![fingerprint] = Append(@, query)]]
    /\ ops' = ops - 1
    /\ UNCHANGED <<column_stats, join_stats, hourly_stats, daily_stats,
                   notTrackers>>

AnalyzeTimestamp ==
    /\ ops > 0
    /\ \E timestamp \in {0, 3599999, 86399999, 259200000, 2000000000},
          execution_time \in ExecTimes :
          LET datetime == timestamp_to_datetime(timestamp)
          IN  /\ hourly_stats' =
                     bump_bucket(hourly_stats, datetime.hour, execution_time)
              /\ daily_stats' =
                     bump_bucket(daily_stats, datetime.day_of_week,
                                 execution_time)
              /\ folded' = [folded EXCEPT !.timestamp =
                                Fold(@, timestamp, execution_time)]
    /\ ops' = ops - 1
    /\ UNCHANGED <<column_stats, join_stats, fingerprints, notTrackers>>

AddLog ==
    /\ ops > 0
    /\ \E log \in LogChoices : logs' = add_log(logs, log)
    /\ ops' = ops - 1
    /\ patterns' = <<>> /\ rec_input' = <<>> /\ recommendations' = <<>>
    /\ UNCHANGED <<recommender, notPattern>>

AddLogs ==
    /\ ops > 0
    /\ \E batch \in LogBatches : logs' = logs \o batch
    /\ ops' = ops - 1
    /\ patterns' = <<>> /\ rec_input' = <<>> /\ recommendations' = <<>>
    /\ UNCHANGED <<recommender, notPattern>>

Clear ==
    /\ logs' = <<>>
    /\ patterns' = <<>> /\ rec_input' = <<>> /\ recommendations' = <<>>
    /\ UNCHANGED <<recommender, ops, notPattern>>

\* analyze(), which a caller asks for once per change of the logs; the map
\* of groups is iterated in an unspecified order
Analyze ==
    /\ patterns = <<>>
    /\ \E order \in IterationOrders(GroupKeys(logs)) :
          patterns' = analyze(logs, order)
    /\ UNCHANGED <<logs, recommender, rec_input, recommendations, ops,
                   notPattern>>

\* recommend(&patterns), which a caller asks for once, on the analysis or on
\* a slice it built
Recommend ==
    /\ rec_input = <<>>
    /\ \E ps \in {patterns} \cup PatternSlices :
          /\ rec_input' = ps
          /\ recommendations' = recommend(recommender, ps)
    /\ UNCHANGED <<logs, patterns, recommender, ops, notPattern>>

AddHistoricalData ==
    /\ ops > 0
    /\ \E log \in HistoryChoices :
          historical_data' = Append(historical_data, log)
    /\ ops' = ops - 1
    /\ prediction' = NoPrediction
    /\ UNCHANGED <<cache_enabled, notPredictor>>

EnableCache ==
    /\ cache_enabled' = TRUE
    /\ prediction' = NoPrediction
    /\ UNCHANGED <<historical_data, ops, notPredictor>>

DisableCache ==
    /\ cache_enabled' = FALSE
    /\ prediction' = NoPrediction
    /\ UNCHANGED <<historical_data, ops, notPredictor>>

Predict ==
    /\ \E type \in { <<"S", "E", "L", "E", "C", "T">>,
                     <<"I", "N", "S", "E", "R", "T">>,
                     <<"s", "e", "l", "e", "c", "t">> },
          rows_to_scan \in {0, 99, 1000, 2000, 100000} :
          prediction' = predict(historical_data, cache_enabled, type,
                                rows_to_scan)
    /\ UNCHANGED <<historical_data, cache_enabled, ops, notPredictor>>

\* parse(query), which a caller asks for once
Parse ==
    /\ parsed = <<>>
    /\ \E query \in QueryTexts :
          parsed' = <<[query |-> query, outcome |-> parse(query)]>>
    /\ UNCHANGED <<cost, removal, notCalls>>

\* calculate_cost; from_parsed tells which of the two methods was called
CalculateCost ==
    /\ \E rows_scanned \in {0, 5000}, join_count \in {0, 2},
          has_order_by \in BOOLEAN, has_group_by \in BOOLEAN :
          cost' = <<[from_parsed |-> FALSE,
                     has_order_by |-> has_order_by, has_group_by |-> has_group_by,
                     rows_scanned |-> rows_scanned,
                     value |-> calculate_cost(rows_scanned, 150, join_count,
                                              has_order_by, has_group_by)]>>
    /\ UNCHANGED <<parsed, removal, notCalls>>

\* calculate_from_parsed on the query that parse returned
CalculateFromParsed ==
    /\ parsed # <<>>
    /\ ~parsed[1].outcome.panicked
    /\ \E rows_scanned \in {0, 5000} :
          cost' = <<[from_parsed |-> TRUE,
                     has_order_by |-> parsed[1].outcome.order_by_columns # <<>>,
                     has_group_by |-> FALSE,
                     rows_scanned |-> rows_scanned,
                     value |-> calculate_from_parsed(parsed[1].outcome, 150,
                                                     rows_scanned)]>>
    /\ UNCHANGED <<parsed, removal, notCalls>>

\* analyze_index_usage(&usage_stats), which a caller asks for once, kept
\* with its argument
AnalyzeIndexUsage ==
    /\ removal = <<>>
    /\ \E usage_stats \in IndexStatsChoices :
          removal' = <<[usage_stats |-> usage_stats,
                        recommendations |-> analyze_index_usage(usage_stats)]>>
    /\ UNCHANGED <<parsed, cost, notCalls>>

---------------------------------------------------------------------------
(* Specifications: one per component, the other components left as built *)

\* every component as its constructor leaves it; the variables that hold
\* returned values start with no value
New ==
    /\ execution_times = <<>> /\ recorded = 0
    /\ anomaly_result = NoResult
    /\ weights = DefaultWeights
    /\ priority_score = NoScore
    /\ column_stats = <<>> /\ join_stats = <<>> /\ fingerprints = <<>>
    /\ hourly_stats = <<>> /\ daily_stats = <<>>
    /\ folded = [column |-> <<>>, join |-> <<>>, fingerprint |-> <<>>,
                 timestamp |-> <<>>,
                 tracked |-> [calls |-> 0, parsed_query |-> <<>>],
                 queries |-> <<>>]
    /\ logs = <<>>
    /\ patterns = <<>> /\ rec_input = <<>> /\ recommendations = <<>>
    /\ historical_data = <<>>
    /\ prediction = NoPrediction
    /\ parsed = <<>> /\ cost = <<>> /\ removal = <<>>

InitAnomaly ==
    /\ New /\ workload \in Workloads /\ ops = 0
    /\ recommender = MainRecommender /\ cache_enabled = TRUE

NextAnomaly ==
    \/ AddExecutionTime
    \/ DetectAnomaly

SpecAnomaly ==
    InitAnomaly /\ [][NextAnomaly]_vars

InitScoring ==
    /\ New /\ workload = "free" /\ ops = 0
    /\ recommender = MainRecommender /\ cache_enabled = TRUE

NextScoring ==
    \/ AdjustWeights
    \/ CalculatePriorityScore

SpecScoring ==
    InitScoring /\ [][NextScoring]_vars

InitPattern ==
    /\ New /\ workload = "free" /\ ops = MaxLogOps
    /\ recommender \in RecommenderChoices /\ cache_enabled = TRUE

NextPattern ==
    \/ AddLog
    \/ AddLogs
    \/ Clear
    \/ Analyze
    \/ Recommend

SpecPattern ==
    InitPattern /\ [][NextPattern]_vars

InitPredictor ==
    /\ New /\ workload = "free" /\ ops = MaxHistoryOps
    /\ recommender = MainRecommender /\ cache_enabled \in BOOLEAN

NextPredictor ==
    \/ AddHistoricalData
    \/ EnableCache
    \/ DisableCache
    \/ Predict

SpecPredictor ==
    InitPredictor /\ [][NextPredictor]_vars

\* the components that keep nothing between calls
InitCalls ==
    /\ New /\ workload = "free" /\ ops = 0
    /\ recommender = MainRecommender /\ cache_enabled = TRUE

NextParser ==
    \/ Parse
    \/ CalculateCost
    \/ CalculateFromParsed

SpecParser ==
    InitCalls /\ [][NextParser]_vars

NextRemoval ==
    \/ AnalyzeIndexUsage

SpecRemoval ==
    InitCalls /\ [][NextRemoval]_vars

\* a fingerprinter used alone, for more queries than it keeps samples
InitFingerprint ==
    /\ New /\ workload = "free" /\ ops = MaxQueries
    /\ recommender = MainRecommender /\ cache_enabled = TRUE

NextFingerprint ==
    \/ AddQuery

SpecFingerprint ==
    InitFingerprint /\ [][NextFingerprint]_vars

\* the statistics trackers and the log store, fed by one caller
Init ==
    /\ New /\ workload = "free" /\ ops = MaxOps
    /\ recommender = MainRecommender /\ cache_enabled = TRUE

Next ==
    \/ TrackUsage
    \/ AnalyzeJoin
    \/ AddQuery
    \/ AnalyzeTimestamp
    \/ AddLog
    \/ AddLogs
    \/ Clear

Spec ==
    Init /\ [][Next]_vars

---------------------------------------------------------------------------
(* Claims *)

\* C1: after any sequence of add_execution_time calls the execution-time
\* history holds at most 100 entries.
C1_HistoryAtMost100 ==
    Len(execution_times) <= 100

\* more than 100 times were recorded and the history is full
C1_Witness ==
    /\ recorded > 100
    /\ Len(execution_times) = 100

\* C4: with fewer than 10 history entries detect_anomaly returns
\* "insufficient_data", not an anomaly, severity 0; with 10 or more entries
\* the severity it returns lies in [0, 1].
C4_VerdictAndSeverityRange ==
    anomaly_result # NoResult =>
        /\ Len(execution_times) < 10 =>
              /\ anomaly_result.anomaly_type = "insufficient_data"
              /\ ~anomaly_result.is_anomaly
              /\ anomaly_result.severity = FInt(0)
        /\ Len(execution_times) >= 10 =>
              /\ anomaly_result.anomaly_type # "insufficient_data"
              /\ ~FIsNaN(anomaly_result.severity)
              /\ ~FLt(anomaly_result.severity, FInt(0))
              /\ ~FLt(FInt(1), anomaly_result.severity)

\* a sudden slowdown against a non-zero median, at four times the baseline
C4_Witness ==
    /\ Len(execution_times) >= 10
    /\ anomaly_result.anomaly_type = "sudden_slow"
    /\ anomaly_result.baseline_value = FInt(100)
    /\ anomaly_result.current_value = FInt(400)
    /\ anomaly_result.severity = FInt(1)

\* C5: with at least 10 history entries and a median baseline of 0,
\* detect_anomaly returns a no-anomaly verdict for every current value.
C5_ZeroBaselineIsNoAnomaly ==
    ( /\ anomaly_result # NoResult
      /\ Len(execution_times) >= 10
      /\ calculate_baseline(execution_times) = FInt(0) )
    => ~anomaly_result.is_anomaly


\* C6: after any sequence of adjust_weights calls the four weights sum to
\* 1.0 and calculate_priority_score returns a total score in [0.2, 1.0].
C6_WeightsSumToOneTotalInRange ==
    /\ FAdd(FAdd(FAdd(weights.frequency, weights.performance), weights.cost),
            weights.complexity) = FInt(1)
    /\ priority_score # NoScore =>
          /\ FGe(priority_score.total_score, <<1, 5>>)
          /\ FGe(FInt(1), priority_score.total_score)


\* C2: for every key of the column tracker, the join tracker and the
\* fingerprint tracker, the stored count is the number of execution times
\* folded into the key and the stored average times the stored count is
\* their sum.
C2_RunningAverageIsMean ==
    LET tally(f, keys) ==
            [n |-> Sum([i \in 1..Len(keys) |->
                          IF keys[i] \in DOMAIN f THEN f[keys[i]].n ELSE 0]),
             sum |-> Sum([i \in 1..Len(keys) |->
                          IF keys[i] \in DOMAIN f THEN f[keys[i]].sum ELSE 0])]
        is_mean(avg, count, t) ==
            count = t.n /\ FMul(avg, FInt(count)) = FInt(t.sum)
    IN  /\ DOMAIN column_stats = DOMAIN folded.column
        /\ \A c \in DOMAIN column_stats :
              is_mean(column_stats[c].avg_query_time,
                      column_stats[c].usage_count,
                      tally(folded.column, <<c>>))
        /\ \A k \in DOMAIN join_stats :
              LET t1 == join_stats[k].table1
                  t2 == join_stats[k].table2
              IN  is_mean(join_stats[k].avg_execution_time,
                          join_stats[k].join_count,
                          tally(folded.join,
                                IF t1 = t2 THEN <<<<t1, t2>>>>
                                ELSE <<<<t1, t2>>, <<t2, t1>>>>))
        /\ DOMAIN fingerprints = DOMAIN folded.fingerprint
        /\ \A f \in DOMAIN fingerprints :
              is_mean(fingerprints[f].avg_execution_time,
                      fingerprints[f].query_count,
                      tally(folded.fingerprint, <<f>>))

\* three execution times, not all equal, were folded into one column or into
\* one fingerprint
C2_Witness ==
    \/ \E c \in DOMAIN column_stats :
          /\ column_stats[c].usage_count = 3
          /\ column_stats[c].avg_query_time = FInt(100)
    \/ \E f \in DOMAIN fingerprints :
          /\ fingerprints[f].query_count = 3
          /\ fingerprints[f].avg_execution_time = FInt(200)

\* C3: create_join_key gives the same key for (A, B) and (B, A), and the
\* joins of A with B and of B with A are counted in one entry: the tracker
\* has one entry per unordered pair recorded, whose join_count is the number
\* of times the pair was recorded in either order.
C3_JoinKeySymmetric ==
    LET names == { <<"u", "s", "e", "r", "s">>, <<"o", "r", "d", "e", "r", "s">>,
                   <<"U", "s", "e", "r", "s">>, <<"u", ".", "i", "d">>, <<>> }
        recorded_as(pair) ==
            IF pair \in DOMAIN folded.join THEN folded.join[pair].n ELSE 0
    IN  /\ \A a \in names, b \in names :
              create_join_key(a, b) = create_join_key(b, a)
        /\ Cardinality(DOMAIN join_stats) =
              Cardinality({ {pair[1], pair[2]} : pair \in DOMAIN folded.join })
        /\ \A k \in DOMAIN join_stats :
              LET t1 == join_stats[k].table1
                  t2 == join_stats[k].table2
              IN  join_stats[k].join_count =
                      IF t1 = t2 THEN recorded_as(<<t1, t2>>)
                      ELSE recorded_as(<<t1, t2>>) + recorded_as(<<t2, t1>>)

\* users was joined with orders and then orders with users: one entry, count 2
C3_Witness ==
    LET users == <<"u", "s", "e", "r", "s">>
        orders == <<"o", "r", "d", "e", "r", "s">>
    IN  /\ {<<users, orders>>, <<orders, users>>} \subseteq DOMAIN folded.join
        /\ folded.join[<<users, orders>>].n = 1
        /\ folded.join[<<orders, users>>].n = 1
        /\ create_join_key(users, orders) \in DOMAIN join_stats
        /\ create_join_key(orders, users) \in DOMAIN join_stats
        /\ join_stats[create_join_key(users, orders)].table1 = users
        /\ join_stats[create_join_key(users, orders)].join_count = 2

\* C7: the list recommend returns is ordered by priority, highest first,
\* and the recommendations of one priority are in the order in which they
\* were generated (pattern by pattern, table by table).
C7_SortedByPriorityTiesInOrder ==
    LET in_order == generated(recommender, rec_input)
    IN  /\ \A i \in 1..Len(recommendations), j \in 1..Len(recommendations) :
              i < j => recommendations[i].priority >= recommendations[j].priority
        /\ \A i \in 1..Len(in_order) :
              LET same_priority(rec) == rec.priority = in_order[i].priority
              IN  SelectSeq(recommendations, same_priority)
                      = SelectSeq(in_order, same_priority)

\* the sort moved a recommendation forward, past two recommendations of one
\* priority that come from different patterns
C7_Witness ==
    /\ recommendations # generated(recommender, rec_input)
    /\ \E i \in 1..Len(recommendations), j \in 1..Len(recommendations) :
          /\ i < j
          /\ recommendations[i].priority = recommendations[j].priority
          /\ recommendations[i].reason # recommendations[j].reason

\* C8: no step lowers a counter of a tracker (a column's usage_count and its
\* where, join and order-by counters, a join_count, a query_count, an hourly
\* or daily count), and only clear makes the log store shorter, leaving the
\* counters of the trackers as they are.
C8_CountersNeverDecrease ==
    [][ LET kept(map, new_map, count(_)) ==
                \A k \in DOMAIN map :
                    k \in DOMAIN new_map /\ count(new_map[k]) >= count(map[k])
            usage_count(c) == c.usage_count
            in_where_clause(c) == c.in_where_clause
            in_join_condition(c) == c.in_join_condition
            in_order_by(c) == c.in_order_by
            join_count(j) == j.join_count
            query_count(f) == f.query_count
            bucket_count(b) == b[1]
        IN  /\ kept(column_stats, column_stats', usage_count)
            /\ kept(column_stats, column_stats', in_where_clause)
            /\ kept(column_stats, column_stats', in_join_condition)
            /\ kept(column_stats, column_stats', in_order_by)
            /\ kept(join_stats, join_stats', join_count)
            /\ kept(fingerprints, fingerprints', query_count)
            /\ kept(hourly_stats, hourly_stats', bucket_count)
            /\ kept(daily_stats, daily_stats', bucket_count)
            /\ Len(logs') < Len(logs) => Clear ]_vars

\* a column was used twice, in a WHERE clause and in an ORDER BY, a time
\* bucket was counted, and the log store is empty
C8_Witness ==
    /\ \E c \in DOMAIN column_stats :
          /\ column_stats[c].usage_count = 2
          /\ column_stats[c].in_where_clause = 1
          /\ column_stats[c].in_order_by = 1
    /\ \E h \in DOMAIN hourly_stats : hourly_stats[h][1] = 1
    /\ logs = <<>>

\* C9: analyze returns one pattern per query type of the stored logs; the
\* frequency of a pattern is the number of logs of its type, its average
\* time times its frequency is the sum of their execution times, and its
\* slowness score is its average time times its frequency.
C9_OnePatternPerQueryType ==
    patterns # <<>> =>
        /\ {patterns[i].query_type : i \in 1..Len(patterns)}
               = {query_type(logs[i]) : i \in 1..Len(logs)}
        /\ Len(patterns) = Cardinality({query_type(logs[i]) : i \in 1..Len(logs)})
        /\ \A i \in 1..Len(patterns) :
              LET of_type(log) == query_type(log) = patterns[i].query_type
                  group == SelectSeq(logs, of_type)
              IN  /\ patterns[i].frequency = Len(group)
                  /\ FMul(patterns[i].avg_execution_time_ms, FInt(Len(group)))
                         = FInt(Sum(Times(group)))
                  /\ patterns[i].slowness_score
                         = FMul(patterns[i].avg_execution_time_ms,
                                FInt(patterns[i].frequency))

\* SELECTs of 150, 250 and 90 ms and one INSERT of 50 ms: two patterns,
\* SELECT with frequency 3 and slowness 490, INSERT with frequency 1
C9_Witness ==
    /\ Len(logs) = 4
    /\ {logs[i].execution_time_ms : i \in 1..4} = {150, 250, 90, 50}
    /\ Len(patterns) = 2
    /\ \E i \in 1..2 :
          /\ patterns[i].query_type = <<"S", "E", "L", "E", "C", "T">>
          /\ patterns[i].frequency = 3
          /\ patterns[i].avg_execution_time_ms = <<490, 3>>
          /\ patterns[i].slowness_score = FInt(490)
    /\ \E i \in 1..2 :
          /\ patterns[i].query_type = <<"I", "N", "S", "E", "R", "T">>
          /\ patterns[i].frequency = 1

\* C10: when no stored record has the requested query type, predict returns
\* 10 + rows_to_scan / 100 (integer division), which is positive, and
\* confidence 0.3, whether the cache is enabled or not.
C10_BaselineWithoutMatch ==
    ( /\ prediction # NoPrediction
      /\ \A i \in 1..Len(historical_data) :
            query_type(historical_data[i]) # prediction.query_type )
    => /\ prediction.estimated_time_ms = 10 + (prediction.rows_to_scan \div 100)
       /\ prediction.estimated_time_ms > 0
       /\ prediction.confidence = <<3, 10>>

\* a history of SELECT records asked for "select", with the cache disabled
\* and no rows to scan
C10_Witness ==
    /\ ~cache_enabled
    /\ historical_data # <<>>
    /\ \A i \in 1..Len(historical_data) :
          query_type(historical_data[i]) = <<"S", "E", "L", "E", "C", "T">>
    /\ prediction.query_type = <<"s", "e", "l", "e", "c", "t">>
    /\ prediction.rows_to_scan = 0
    /\ prediction.estimated_time_ms = 10
    /\ prediction.confidence = <<3, 10>>

\* C11: when at least one stored record has the requested query type, predict
\* returns the average execution time of the matching records scaled by
\* max(rows / 1000, 1.0) and by 0.6 when the cache is enabled, in whole
\* milliseconds, with confidence min(matching records / 10, 0.95).
C11_ScaledAverageOfMatches ==
    LET matching == SelectSeq(historical_data,
                              LAMBDA l : query_type(l) = prediction.query_type)
        total == Sum([i \in 1..Len(matching) |-> matching[i].execution_time_ms])
        average == FDiv(FInt(total), FInt(Len(matching)))
        rows == FDiv(FInt(prediction.rows_to_scan), FInt(1000))
        scaled == FMul(average, IF FLt(rows, FInt(1)) THEN FInt(1) ELSE rows)
        cached == IF cache_enabled THEN FMul(scaled, <<3, 5>>) ELSE scaled
        tenth == FDiv(FInt(Len(matching)), FInt(10))
    IN  ( prediction # NoPrediction /\ matching # <<>> )
        => /\ prediction.estimated_time_ms = cached[1] \div cached[2]
           /\ prediction.confidence
                 = IF FLt(tenth, <<19, 20>>) THEN tenth ELSE <<19, 20>>

\* the demonstration run: SELECT records of 150 ms and 250 ms, the cache
\* enabled, 2000 rows: 240 ms with confidence 0.2
C11_MainExample ==
    /\ cache_enabled
    /\ Len(historical_data) = 2
    /\ historical_data[1].execution_time_ms = 150
    /\ historical_data[2].execution_time_ms = 250
    /\ prediction.query_type = <<"S", "E", "L", "E", "C", "T">>
    /\ prediction.rows_to_scan = 2000
    /\ prediction.estimated_time_ms = 240
    /\ prediction.confidence = <<1, 5>>

\* C12: recommend returns exactly one recommendation for each pair of a
\* pattern and one of its tables where the pattern's slowness score is above
\* the slowness threshold or its frequency is above the frequency threshold,
\* and nothing else; an empty pattern list gives an empty list.
C12_OnePerQualifyingPatternAndTable ==
    LET qualifies(i) ==
            \/ FLt(recommender.slowness_threshold, rec_input[i].slowness_score)
            \/ rec_input[i].frequency > recommender.frequency_threshold
        pairs == UNION { { <<i, k>> : k \in 1..Len(rec_input[i].tables) } :
                           i \in { n \in 1..Len(rec_input) : qualifies(n) } }
        label_of(ik) == <<rec_input[ik[1]].tables[ik[2]],
                          rec_input[ik[1]].query_type,
                          rec_input[ik[1]].frequency,
                          rec_input[ik[1]].avg_execution_time_ms>>
        label(rec) == <<rec.table>> \o rec.reason
    IN  /\ Len(recommendations) = Cardinality(pairs)
        /\ \A j \in 1..Len(recommendations) :
              Cardinality({ k \in 1..Len(recommendations) :
                              label(recommendations[k]) = label(recommendations[j]) })
                  = Cardinality({ ik \in pairs :
                                    label_of(ik) = label(recommendations[j]) })
        /\ (rec_input = <<>>) => (recommendations = <<>>)

\* an analysis with a pattern under both thresholds that has a table, and a
\* pattern over a threshold that has two tables
C12_Witness ==
    /\ rec_input = patterns
    /\ Len(recommendations) = 2
    /\ \E i \in 1..Len(rec_input) :
          /\ rec_input[i].tables # <<>>
          /\ ~FLt(recommender.slowness_threshold, rec_input[i].slowness_score)
          /\ rec_input[i].frequency <= recommender.frequency_threshold
    /\ \E i \in 1..Len(rec_input) :
          /\ Len(rec_input[i].tables) = 2
          /\ rec_input[i].frequency > recommender.frequency_threshold

\* C13: parse returns for every query text, whatever keywords it has and in
\* whatever order, and a clause whose keyword does not occur in the text
\* gives an empty list.
C13_ParseNeverFails ==
    parsed # <<>>
    => LET upper == to_uppercase(parsed[1].query)
           outcome == parsed[1].outcome
       IN  /\ ~outcome.panicked
           /\ ~contains(upper, <<"W", "H", "E", "R", "E">>) => outcome.where_clauses = <<>>
           /\ ~contains(upper, <<"J", "O", "I", "N">>) => outcome.join_conditions = <<>>
           /\ ~contains(upper, <<"O", "R", "D", "E", "R", " ", "B", "Y">>)
                 => outcome.order_by_columns = <<>>
           /\ ~contains(upper, <<"S", "E", "L", "E", "C", "T">>) => outcome.select_columns = <<>>
           /\ ~contains(upper, <<"F", "R", "O", "M">>) => outcome.from_tables = <<>>

\* a text without WHERE, JOIN and ORDER BY that parse returned for, with empty
\* lists for them
C13_AbsentClausesEmpty ==
    /\ parsed # <<>>
    /\ ~parsed[1].outcome.panicked
    /\ parsed[1].outcome.select_columns = <<<<"a">>, <<"b">>>>
    /\ parsed[1].outcome.from_tables = <<<<"t">>, <<"u">>>>
    /\ parsed[1].outcome.where_clauses = <<>>
    /\ parsed[1].outcome.join_conditions = <<>>
    /\ parsed[1].outcome.order_by_columns = <<>>
    /\ ~contains(to_uppercase(parsed[1].query), <<"W", "H", "E", "R", "E">>)

\* C14: keyword search is case-insensitive: a query text and the same text
\* with its keywords in lower case give the same where-condition,
\* join-condition, order-by, select-column and from-table lists.  (The names
\* and values of the query texts are in lower case already, so lower-casing
\* the text lower-cases exactly its keywords.)
C14_KeywordCaseInsensitive ==
    ( parsed # <<>> /\ ~parsed[1].outcome.panicked )
    => LET query == parsed[1].query
           lower == [i \in 1..Len(query) |->
                       IF Ord[query[i]] \in 16..41
                       THEN AsciiOrder[Ord[query[i]] + 27] ELSE query[i]]
           outcome == parsed[1].outcome
           twin == parse(lower)
       IN  /\ ~twin.panicked
           /\ twin.where_clauses = outcome.where_clauses
           /\ twin.join_conditions = outcome.join_conditions
           /\ twin.order_by_columns = outcome.order_by_columns
           /\ twin.select_columns = outcome.select_columns
           /\ twin.from_tables = outcome.from_tables

\* C17: the sort component of a cost is row_scan_cost * 2.0 when the query
\* has an ORDER BY or a GROUP BY clause and 0 otherwise, for calculate_cost
\* (which is told so) and for calculate_from_parsed (where the parsed query
\* has order-by columns, or its text has GROUP BY).
C17_SortCostForOrderOrGroup ==
    cost # <<>>
    => LET sorts == IF cost[1].from_parsed
                    THEN \/ parsed[1].outcome.order_by_columns # <<>>
                         \/ contains(to_uppercase(parsed[1].query), <<"G", "R", "O", "U", "P", " ", "B", "Y">>)
                    ELSE cost[1].has_order_by \/ cost[1].has_group_by
       IN  cost[1].value.sort_cost
               = IF sorts THEN FMul(cost[1].value.row_scan_cost, FInt(2))
                 ELSE FInt(0)

\* calculate_cost told of a GROUP BY and no ORDER BY charges the sort
C17_GroupByAloneCharged ==
    /\ cost # <<>>
    /\ ~cost[1].from_parsed
    /\ cost[1].has_group_by /\ ~cost[1].has_order_by
    /\ cost[1].value.row_scan_cost = FInt(5)
    /\ cost[1].value.sort_cost = FInt(10)

\* C15: every entry of the column tracker is keyed by its table name, a dot
\* and its column name; the entry of a column without a table qualifier has
\* the table name "unknown" and so the key "unknown.column".
C15_KeyedByTableDotColumn ==
    \A key \in DOMAIN column_stats :
        key = column_stats[key].table_name \o <<".">> \o column_stats[key].column_name

\* a qualified column, keyed as the claim says
C15_QualifiedKey ==
    /\ <<"u", ".", "i", "d">> \in DOMAIN column_stats
    /\ column_stats[<<"u", ".", "i", "d">>].table_name = <<"u">>
    /\ column_stats[<<"u", ".", "i", "d">>].column_name = <<"i", "d">>

\* C16: what the read accessors return does not depend on the order in which
\* the maps are iterated: get_most_used_columns(limit),
\* get_frequent_joins(limit) and recommend(analyze()) give the same elements
\* in the same order under every iteration order, ties included.
C16_IterationOrderInsignificant ==
    /\ \A first \in IterationOrders(DOMAIN column_stats),
          second \in IterationOrders(DOMAIN column_stats), limit \in 1..2 :
          get_most_used_columns(column_stats, first, limit)
              = get_most_used_columns(column_stats, second, limit)
    /\ \A first \in IterationOrders(DOMAIN join_stats),
          second \in IterationOrders(DOMAIN join_stats), limit \in 1..2 :
          get_frequent_joins(join_stats, first, limit)
              = get_frequent_joins(join_stats, second, limit)
    /\ \A first \in IterationOrders(GroupKeys(logs)),
          second \in IterationOrders(GroupKeys(logs)) :
          recommend(recommender, analyze(logs, first))
              = recommend(recommender, analyze(logs, second))

\* columns with different usage counts: every iteration order gives the
\* same list
C16_DistinctCountsAgree ==
    /\ Cardinality(DOMAIN column_stats) >= 2
    /\ \A a \in DOMAIN column_stats, b \in DOMAIN column_stats :
          a # b => column_stats[a].usage_count # column_stats[b].usage_count
    /\ \A first \in IterationOrders(DOMAIN column_stats),
          second \in IterationOrders(DOMAIN column_stats) :
          get_most_used_columns(column_stats, first, 2)
              = get_most_used_columns(column_stats, second, 2)

\* C18: the trend label of a fingerprint entry is "stable" while its query
\* count is below 3; from count 3 on it is "degrading" when the running
\* average is above 200, "improving" when it is below 50, else "stable".
C18_TrendByCountAndAverage ==
    \A f \in DOMAIN fingerprints :
        LET entry == fingerprints[f]
            avg == entry.avg_execution_time
        IN  /\ entry.query_count < 3 => entry.performance_trend = "stable"
            /\ entry.query_count >= 3 =>
                  entry.performance_trend =
                      IF avg[1] > 200 * avg[2] THEN "degrading"
                      ELSE IF avg[1] < 50 * avg[2] THEN "improving"
                      ELSE "stable"

\* an entry of three queries of 300 ms, labelled "degrading"
C18_Witness ==
    \E f \in DOMAIN fingerprints :
        /\ fingerprints[f].query_count = 3
        /\ fingerprints[f].avg_execution_time = FInt(300)
        /\ fingerprints[f].performance_trend = "degrading"

\* C19: with 10 to 100 recorded times and no sudden-slow verdict,
\* detect_anomaly reports "unusual_pattern" exactly when the average of the
\* 5 most recent times differs by more than 50% from the average of the (up
\* to 10) times recorded before them.  Nothing is asked where that older
\* average is 0, which has no percentage.
C19_UnusualPatternIffTrendChange ==
    LET n == Len(execution_times)
        recent == SubSeq(execution_times, n - 4, n)
        older == SubSeq(execution_times, IF n - 14 < 1 THEN 1 ELSE n - 14, n - 5)
        \* Sum(recent) / 5 against Sum(older) / Len(older), cross-multiplied
        gap == IAbs(Sum(recent) * Len(older) - Sum(older) * 5)
    IN  ( /\ n >= 10
          /\ anomaly_result # NoResult
          /\ anomaly_result.anomaly_type # "sudden_slow"
          /\ Sum(older) > 0 )
        => ( anomaly_result.anomaly_type = "unusual_pattern"
             <=> 2 * gap > Sum(older) * 5 )

\* a history of 15 or more times for which "unusual_pattern" is reported
C19_FullWindowUnusual ==
    /\ Len(execution_times) >= 15
    /\ anomaly_result.anomaly_type = "unusual_pattern"
    /\ Sum(SubSeq(execution_times, Len(execution_times) - 14,
                  Len(execution_times) - 5)) > 0

\* C20: an index gets a removal recommendation if and only if its confidence
\* is above 0.5, the confidence being the sum of 0.3 (usage below 10), 0.2
\* (last use below 30 days), 0.4 (benefit below a tenth of the maintenance
\* cost) and 0.5 (usage 0) over the checks that hold; a confidence of exactly
\* 0.5 gives none.
C20_RemovalIffConfidenceAboveHalf ==
    removal # <<>>
    => LET usage_stats == removal[1].usage_stats
           recs == removal[1].recommendations
           \* the confidence in tenths
           tenths(stats) ==
               (IF stats.usage_count < 10 THEN 3 ELSE 0)
               + (IF stats.last_used < 2592000 THEN 2 ELSE 0)
               + (IF stats.query_benefit[1] * 10
                       < stats.maintenance_cost[1] * stats.query_benefit[2]
                  THEN 4 ELSE 0)
               + (IF stats.usage_count = 0 THEN 5 ELSE 0)
           of(stats) == { k \in 1..Len(recs) :
                            recs[k].index_name = stats.index_name }
       IN  /\ \A i \in 1..Len(usage_stats) :
                 /\ Cardinality(of(usage_stats[i]))
                       = IF tenths(usage_stats[i]) > 5 THEN 1 ELSE 0
                 /\ \A k \in of(usage_stats[i]) :
                       recs[k].confidence_score
                           = FDiv(FInt(tenths(usage_stats[i])), FInt(10))
           /\ \A k \in 1..Len(recs) :
                 \E i \in 1..Len(usage_stats) : k \in of(usage_stats[i])

\* an index used 9 times, last before the 30 days, with benefit enough: 0.3
\* + 0.2 is exactly 0.5 and it is not recommended, beside an index never
\* used, which is
C20_Witness ==
    /\ removal # <<>>
    /\ Len(removal[1].usage_stats) = 2
    /\ removal[1].usage_stats[1].usage_count = 9
    /\ removal[1].usage_stats[1].last_used = 2591999
    /\ removal[1].usage_stats[1].query_benefit = FInt(5)
    /\ removal[1].usage_stats[2].usage_count = 0
    /\ Len(removal[1].recommendations) = 1
    /\ removal[1].recommendations[1].index_name = <<"b">>

\* C21: a record with a millisecond timestamp is counted in the hour bucket
\* ((timestamp / 1000) mod 86400) / 3600 and in the day bucket
\* ((timestamp / 1000) / 86400 + 4) mod 7 (Sunday is 0, the epoch day is
\* Thursday, 4); hour keys are in 0..23 and day keys in 0..6.
C21_HourAndDayBuckets ==
    LET hour_of(ts) == ((ts \div 1000) % 86400) \div 3600
        day_of(ts) == (((ts \div 1000) \div 86400) + 4) % 7
        recorded_at(bucket_of(_), bucket) ==
            LET at == { ts \in DOMAIN folded.timestamp : bucket_of(ts) = bucket }
                RECURSIVE total(_)
                total(left) ==
                    IF left = {} THEN 0
                    ELSE LET ts == CHOOSE ts \in left : TRUE
                         IN  folded.timestamp[ts].n + total(left \ {ts})
            IN  total(at)
        counted(stats, bucket) ==
            IF bucket \in DOMAIN stats THEN stats[bucket][1] ELSE 0
    IN  /\ DOMAIN hourly_stats \subseteq 0..23
        /\ DOMAIN daily_stats \subseteq 0..6
        /\ \A hour \in 0..23 :
              counted(hourly_stats, hour) = recorded_at(hour_of, hour)
        /\ \A day \in 0..6 :
              counted(daily_stats, day) = recorded_at(day_of, day)
        /\ \A hour \in DOMAIN hourly_stats : hourly_stats[hour][1] >= 1
        /\ \A day \in DOMAIN daily_stats : daily_stats[day][1] >= 1

\* records of the last millisecond of the epoch day (a Thursday, hour 23), of
\* 4 January 1970 (a Sunday) and of 24 January 1970, 03:33 (a Saturday)
C21_Witness ==
    /\ {86399999, 259200000, 2000000000} \subseteq DOMAIN folded.timestamp
    /\ DOMAIN hourly_stats = {0, 3, 23}
    /\ DOMAIN daily_stats = {0, 4, 6}

\* C22: a WHERE clause of k conditions joined by AND/OR gives exactly those k
\* conditions: each appears once in where_clauses and no entry holds more
\* than one condition; so the clauses of "WHERE x = 1 AND y = 2" and of
\* "WHERE x = 1 OR y = 2" before a LIMIT give the two entries x = 1, y = 2.
C22_WhereSplitIntoConditions ==
    ( parsed # <<>> /\ ~parsed[1].outcome.panicked )
    => LET where_clauses == parsed[1].outcome.where_clauses
       IN  /\ \A i \in 1..Len(where_clauses), j \in 1..Len(where_clauses) :
                 i # j => where_clauses[i] # where_clauses[j]
           /\ \A i \in 1..Len(where_clauses) :
                 /\ ~contains(where_clauses[i], <<" ", "A", "N", "D", " ">>)
                 /\ ~contains(where_clauses[i], <<" ", "O", "R", " ">>)
           /\ parsed[1].query \in { <<"W", "H", "E", "R", "E", " ", "x", " ", "=", " ", "1", " ", "A", "N", "D", " ", "y", " ", "=", " ", "2", " ", "L", "I", "M", "I", "T", " ", "5">>,
                                    <<"W", "H", "E", "R", "E", " ", "x", " ", "=", " ", "1", " ", "O", "R", " ", "y", " ", "=", " ", "2", " ", "L", "I", "M", "I", "T", " ", "5">> }
                 => where_clauses = <<<<"x", " ", "=", " ", "1">>, <<"y", " ", "=", " ", "2">>>>

\* C23: after n add_execution_time calls the history is the last min(n, 100)
\* recorded values in the order they were recorded.  (A scripted workload
\* records WorkloadTime(workload, k) in its call k = 0, 1, ...; of a free
\* workload, which stays below 100 values, only the length is known.)
C23_LastHundredInOrder ==
    LET kept == IF recorded < 100 THEN recorded ELSE 100
    IN  /\ Len(execution_times) = kept
        /\ workload # "free" =>
              \A i \in 1..kept :
                  execution_times[i] = WorkloadTime(workload, recorded - kept + i - 1)

\* 102 values of the sawtooth recorded: the two oldest (0 and 50) are gone
\* and the history starts with the third (100)
C23_Witness ==
    /\ workload = "sawtooth"
    /\ recorded = 102
    /\ Len(execution_times) = 100
    /\ execution_times[1] = 100
    /\ execution_times[100] = (101 % 7) * 50

\* C24: adjust_weights applies its modes in the order read-heavy,
\* write-heavy, storage-constrained; each mode overwrites its own two weights
\* and no other, and of two modes that set the same weight the later wins:
\* every step that changes the weights is the step of some choice of flags
\* under that rule, adjust_weights(true, true, false) leaves the performance
\* weight 0.3 and the cost weight 0.4, and adjust_weights(false, false, false)
\* changes nothing.
C24_ModesInFixedOrder ==
    [][ /\ weights' # weights =>
            \E r \in BOOLEAN, w \in BOOLEAN, s \in BOOLEAN :
                /\ weights'.frequency =
                       IF r THEN <<3, 10>> ELSE weights.frequency
                /\ weights'.performance =
                       IF w THEN <<3, 10>>
                       ELSE IF r THEN <<1, 2>> ELSE weights.performance
                /\ weights'.cost =
                       IF s THEN <<1, 2>>
                       ELSE IF w THEN <<2, 5>> ELSE weights.cost
                /\ weights'.complexity =
                       IF s THEN <<1, 5>> ELSE weights.complexity
        /\ adjust_weights(weights, TRUE, TRUE, FALSE).performance = <<3, 10>>
        /\ adjust_weights(weights, TRUE, TRUE, FALSE).cost = <<2, 5>>
        /\ adjust_weights(weights, FALSE, FALSE, FALSE) = weights
      ]_vars

\* the weights adjust_weights(true, true, false) makes of the default ones
C24_Witness ==
    weights = [frequency |-> <<3, 10>>, performance |-> <<3, 10>>,
               cost |-> <<2, 5>>, complexity |-> <<1, 10>>]

\* C25: a WHERE or JOIN condition without an '=', or with no '.' before its
\* first '=', is dropped: a track_usage call adds no entry other than the
\* qualified left sides of its conditions and its ORDER BY columns, and a call
\* whose conditions all fail and that has no ORDER BY column leaves the
\* column statistics as they were.
C25_UnqualifiedConditionsDropped ==
    [][ folded'.tracked.calls # folded.tracked.calls =>
          LET parsed_query == folded'.tracked.parsed_query[1]
              conditions == parsed_query.where_clauses \o parsed_query.join_conditions
              equals(c) == {i \in 1..Len(c) : c[i] = "="}
              first(c) == CHOOSE i \in equals(c) : \A j \in equals(c) : i <= j
              fails(c) == \/ equals(c) = {}
                          \/ \A j \in 1..(first(c) - 1) : c[j] # "."
              left(c) == trim(SubSeq(c, 1, first(c) - 1))
              named == {left(conditions[i]) :
                           i \in {k \in 1..Len(conditions) : ~fails(conditions[k])}}
                       \cup {parsed_query.order_by_columns[i] :
                               i \in 1..Len(parsed_query.order_by_columns)}
          IN  /\ DOMAIN column_stats' = DOMAIN column_stats \cup named
              /\ \A k \in DOMAIN column_stats \ named :
                     column_stats'[k] = column_stats[k]
              /\ (/\ \A i \in 1..Len(conditions) : fails(conditions[i])
                  /\ parsed_query.order_by_columns = <<>>)
                 => column_stats' = column_stats
      ]_vars

\* a query with the conditions "id = 1", "users left join orders" and
\* "orders" and no ORDER BY column was tracked after a column was counted
C25_Witness ==
    /\ folded.tracked.calls >= 2
    /\ folded.tracked.parsed_query[1].order_by_columns = <<>>
    /\ folded.tracked.parsed_query[1].where_clauses = <<<<"i", "d", " ", "=", " ", "1">>>>
    /\ column_stats # <<>>

\* C28: the usage count of every column entry is the sum of its WHERE, JOIN
\* and ORDER BY counters, and is at least 1.
C28_UsageCountIsSumOfCounters ==
    \A k \in DOMAIN column_stats :
        /\ column_stats[k].usage_count =
               column_stats[k].in_where_clause
               + column_stats[k].in_join_condition
               + column_stats[k].in_order_by
        /\ column_stats[k].usage_count >= 1

\* u.id counted in a WHERE clause and as an ORDER BY column, o.uid in a
\* JOIN condition
C28_Witness ==
    /\ {<<"u", ".", "i", "d">>, <<"o", ".", "u", "i", "d">>} \subseteq DOMAIN column_stats
    /\ column_stats[<<"u", ".", "i", "d">>].in_where_clause >= 1
    /\ column_stats[<<"u", ".", "i", "d">>].in_order_by >= 1
    /\ column_stats[<<"o", ".", "u", "i", "d">>].in_join_condition >= 1

\* C26: every fingerprint entry retains min(query_count, 5) sample texts, and
\* they are the first five query texts that arrived for the fingerprint, in
\* arrival order; a later query never replaces a sample.
C26_SamplesAreFirstFive ==
    /\ DOMAIN fingerprints = DOMAIN folded.queries
    /\ \A f \in DOMAIN fingerprints :
          LET arrived == folded.queries[f]
              entry == fingerprints[f]
              kept == IF entry.query_count < 5 THEN entry.query_count ELSE 5
          IN  /\ entry.query_count = Len(arrived)
              /\ Len(entry.sample_queries) = kept
              /\ entry.sample_queries = SubSeq(arrived, 1, kept)

\* seven queries of one fingerprint: five "SELECT * FROM t", then the text
\* "select * from t", which is in no sample
C26_Witness ==
    \E f \in DOMAIN fingerprints :
        /\ fingerprints[f].query_count = 7
        /\ \A i \in 1..5 : folded.queries[f][i] = <<"S", "E", "L", "E", "C", "T", " ", "*", " ", "F", "R", "O", "M", " ", "t">>
        /\ folded.queries[f][6] = <<"s", "e", "l", "e", "c", "t", " ", "*", " ", "f", "r", "o", "m", " ", "t">>

\* C27: the priority label follows the total score by the cutoffs 0.8
\* (Critical), 0.6 (High), 0.4 (Medium) and 0.2 (Low), a score below 0.2 being
\* "Very Low"; with the default weights every sub-score is at least 0.2 and
\* the label "Very Low" is never produced.
C27_LabelByCutoffs ==
    priority_score # NoScore =>
        LET total == priority_score.total_score
            level == priority_score.priority_level
            below(cutoff) == total[1] * cutoff[2] < cutoff[1] * total[2]
        IN  /\ level = "Critical" <=> ~below(<<4, 5>>)
            /\ level = "High" <=> below(<<4, 5>>) /\ ~below(<<3, 5>>)
            /\ level = "Medium" <=> below(<<3, 5>>) /\ ~below(<<2, 5>>)
            /\ level = "Low" <=> below(<<2, 5>>) /\ ~below(<<1, 5>>)
            /\ level = "Very Low" <=> below(<<1, 5>>)
            /\ weights = DefaultWeights =>
                  /\ level # "Very Low"
                  /\ \A sub \in {priority_score.frequency_score,
                                 priority_score.performance_score,
                                 priority_score.cost_score,
                                 priority_score.complexity_score} :
                         5 * sub[1] >= sub[2]

\* the default weights and four sub-scores of 0.2: a total of exactly 0.2,
\* labelled "Low"
C27_Witness ==
    /\ weights = DefaultWeights
    /\ priority_score # NoScore
    /\ priority_score.total_score = <<1, 5>>
    /\ priority_score.priority_level = "Low"

\* C29: whenever detect_anomaly returns "sudden_slow" the severity it reports
\* is exactly 1.0.
C29_SuddenSlowSeverityIsOne ==
    ( /\ anomaly_result # NoResult
      /\ anomaly_result.anomaly_type = "sudden_slow" )
    => anomaly_result.severity = FInt(1)

\* a sudden slowdown at a deviation of 3 (400 against a median of 100) or
\* of 19 (400 against a median of 20), after 50 or more recorded values
C29_Witness ==
    /\ anomaly_result # NoResult
    /\ anomaly_result.anomaly_type = "sudden_slow"
    /\ anomaly_result.current_value = FInt(400)
    /\ anomaly_result.baseline_value \in {FInt(20), FInt(100)}
    /\ workload \in {"spiky", "steady"}
    /\ recorded >= 50

\* C30: an index with a usage count of 0 fails the usage-floor check as well,
\* so its confidence is at least 0.8 and it is always recommended for
\* removal, whatever its last use and its benefit.
C30_NeverUsedAlwaysRecommended ==
    removal # <<>>
    => LET usage_stats == removal[1].usage_stats
           recs == removal[1].recommendations
       IN  \A i \in 1..Len(usage_stats) :
               usage_stats[i].usage_count = 0
               => \E k \in 1..Len(recs) :
                     /\ recs[k].index_name = usage_stats[i].index_name
                     /\ recs[k].confidence_score[1] * 5
                            >= 4 * recs[k].confidence_score[2]
                     /\ \E r \in 1..Len(recs[k].removal_reason) :
                            recs[k].removal_reason[r] = "Low usage frequency"
                     /\ \E r \in 1..Len(recs[k].removal_reason) :
                            recs[k].removal_reason[r] = "Never used"

\* an index never used, last used at the 30 days and with benefit enough: no
\* other check holds, the confidence is exactly 0.8 and it is recommended
C30_Witness ==
    /\ removal # <<>>
    /\ Len(removal[1].usage_stats) = 1
    /\ removal[1].usage_stats[1].usage_count = 0
    /\ removal[1].usage_stats[1].last_used = 2592000
    /\ removal[1].usage_stats[1].query_benefit = FInt(5)
    /\ Len(removal[1].recommendations) = 1
    /\ removal[1].recommendations[1].confidence_score = <<4, 5>>

===========================================================================
